---- MODULE Spec2Model ----
(***************************************************************************)
(* Model of ThothScriptorium: the income-statement flow-graph builder     *)
(* (src/src/plot_sankey.py, specification Spec, and SpecBuilds for several *)
(* calls in a row), the warehouse access of                                *)
(* src/src/data_extraction.py (SpecData), the table and chart renderers of *)
(* src/src/ui and the script plot_table.py (SpecRender), human_format      *)
(* (SpecFormat) and the page script app.py (SpecApp).  The specifications  *)
(* share the variables; each starts the other components idle and leaves   *)
(* them unchanged.                                                         *)
(*                                                                         *)
(* A state holds the loaded payload (table, meta) and every list the       *)
(* builder computes.  Node and row indices are 0-based as in the Python    *)
(* code; TLA+ sequences are 1-based, so node i is element i+1 of a list.   *)
(* Numbers read from the payload are integers; quotients (percentages,     *)
(* layout coordinates, scaled values) are exact rationals [n, d] in lowest *)
(* terms with d > 0, plus the sign bit of the float result, so the model   *)
(* is the real-number reading of the floating-point code.                  *)
(***************************************************************************)
EXTENDS Integers, Sequences, FiniteSets, TLC

\* plot_income_sankey: the payload and every list the builder computes
VARIABLES table, meta, pc, err, nodes, flows, x_pos, y_pos, node_colors,
          link_colors, node_values, pct_text, labels, link_pct, fig

\* the calls of plot_income_sankey made so far, each with what it was given
\* and what it gave back
VARIABLES builds

\* data_extraction: the running call, its arguments, the environment, the
\* queries sent to the warehouse, the lines printed, and how the call ended
VARIABLES dx_fn, dx_pc, code_arg, client, creds, queries, responses, printed,
          df_all, df_quarter, dx_ret, dx_err

sankeyVars == <<table, meta, pc, err, nodes, flows, x_pos, y_pos, node_colors,
                link_colors, node_values, pct_text, labels, link_pct, fig,
                builds>>

dataVars == <<dx_fn, dx_pc, code_arg, client, creds, queries, responses, printed,
              df_all, df_quarter, dx_ret, dx_err>>

\* the renderers of src/ui and the script plot_table.py: the call, what it
\* computed and what it handed to streamlit
VARIABLES rd_fn, rd_pc, rd_code, rd_df, rd_err, st_out, competitors_sorted,
          final_cols, category, df_core, params, left_default_idx,
          right_default_idx, left_param, right_param

\* _choose_default_index called on its own: the arguments, the value
\* returned
VARIABLES cdi_pc, cdi_args, cdi_ret

cdiVars == <<cdi_pc, cdi_args, cdi_ret>>

renderVars == <<rd_fn, rd_pc, rd_code, rd_df, rd_err, st_out,
                competitors_sorted, final_cols, category, df_core, params,
                left_default_idx, right_default_idx, left_param,
                right_param, cdiVars>>

\* human_format: the value it is given and the text it returns
VARIABLES fmt_x, fmt_pc, fmt_out

formatVars == <<fmt_x, fmt_pc, fmt_out>>

\* app.py: the select box, the session state, and what one run of the
\* script did (the stages it went through, the exception that ended it)
VARIABLES selected, session_state, runs, app_pc, app_err, stages

appVars == <<selected, session_state, runs, app_pc, app_err, stages>>

vars == <<sankeyVars, dataVars, renderVars, formatVars, appVars>>

\* what an action of one component leaves alone
outsideSankey == <<dataVars, renderVars, formatVars, appVars>>
outsideData   == <<sankeyVars, renderVars, formatVars, appVars>>
outsideRender == <<sankeyVars, dataVars, formatVars, appVars>>
outsideFormat == <<sankeyVars, dataVars, renderVars, appVars>>
outsideApp    == <<sankeyVars, dataVars, renderVars, formatVars>>

(***************************************************************************)
(* Bounds of the model.                                                    *)
(***************************************************************************)
MaxSeg == 2
\* the largest number of segments in the tables of the layout family
MaxLayoutSeg == 5

\* values a line item's `current` takes: a loss/cost, zero, a gain
Values == {-3, 0, 2}

(***************************************************************************)
(* Exact arithmetic.                                                       *)
(***************************************************************************)
Abs(x) == IF x < 0 THEN -x ELSE x

\* Python's max(a, b): the first argument unless the second is larger
Max(a, b) == IF b > a THEN b ELSE a

RECURSIVE GCD(_, _)
GCD(a, b) == IF b = 0 THEN a ELSE GCD(b, a % b)

\* the quotient n/d (d # 0) in lowest terms with a positive denominator;
\* neg is the sign bit of the float quotient, set also for 0 / negative
Rat(n, d) ==
    LET g == GCD(Abs(n), Abs(d))
        s == IF d < 0 THEN -1 ELSE 1
    IN  [n |-> (s * n) \div g, d |-> (s * d) \div g,
         neg |-> (n < 0) # (d < 0)]

RatAdd(a, b) == Rat(a.n * b.d + b.n * a.d, a.d * b.d)
RatMul(a, b) == Rat(a.n * b.n, a.d * b.d)
RatLeq(a, b) == a.n * b.d <= b.n * a.d
\* numeric equality (-0.0 equals 0.0)
RatEq(a, b)  == a.n = b.n /\ a.d = b.d

\* Python None
None == [none |-> TRUE]

(***************************************************************************)
(* Formatting.                                                             *)
(***************************************************************************)
Pad3(k) ==
    IF k < 10 THEN "00" \o ToString(k)
    ELSE IF k < 100 THEN "0" \o ToString(k)
    ELSE ToString(k)

\* the "," option of a format spec: digits grouped in thousands
RECURSIVE Grouped(_)
Grouped(k) ==
    IF k < 1000 THEN ToString(k)
    ELSE Grouped(k \div 1000) \o "," \o Pad3(k % 1000)

\* |r| in tenths, rounded to nearest, ties to even
RoundTenths(r) ==
    LET a  == Abs(r.n) * 10
        q  == a \div r.d
        r2 == 2 * (a % r.d)
    IN  IF r2 > r.d \/ (r2 = r.d /\ q % 2 = 1) THEN q + 1 ELSE q

\* f"{r:.1f}"
Fmt1(r) ==
    LET t == RoundTenths(r)
    IN  (IF r.neg THEN "-" ELSE "") \o ToString(t \div 10) \o "."
          \o ToString(t % 10)

\* f"{r:,.1f}"
FmtGrouped1(r) ==
    LET t == RoundTenths(r)
    IN  (IF r.neg THEN "-" ELSE "") \o Grouped(t \div 10) \o "."
          \o ToString(t % 10)

(***************************************************************************)
(* The payload.                                                            *)
(***************************************************************************)
RequiredAnchors ==
    <<"REV_TOTAL", "COGS_TOTAL", "GP_TOTAL", "OPEX_TOTAL", "EBIT_TOTAL",
      "PBT_TOTAL", "TAX_EXPENSE", "NET_PROFIT_TOTAL">>

RequiredNames ==
    <<"Revenue", "COGS", "Gross profit", "Operating expenses", "EBIT",
      "Pre-tax profit", "Tax", "Net profit">>

SegmentAnchor == "REV_BREAKDOWN_SEGMENT"

Row(a, name, cur) == [anchor |-> a, display_name |-> name, current |-> cur]

\* the rows of the required anchors, in the order of RequiredAnchors
RequiredRows(vals) ==
    [k \in 1..8 |-> Row(RequiredAnchors[k], RequiredNames[k], vals[k])]

\* one segment row per value, named by its position among the segments
SegmentRows(segs) ==
    [k \in 1..Len(segs) |->
        Row(SegmentAnchor, "Segment " \o ToString(k), segs[k])]

SegmentValues == UNION {[1..k -> Values] : k \in 0..MaxSeg}

DefaultMeta ==
    [company |-> "ACME", period_label |-> "FY2024", currency |-> "IDR",
     unit |-> "million"]

(***************************************************************************)
(* plot_income_sankey: helpers.                                            *)
(***************************************************************************)
\* positions of the rows carrying the anchor, in table order
AnchorIndices(t, anchor) == {k \in 1..Len(t) : t[k].anchor = anchor}

\* get_row raises ValueError when no row carries the anchor
RowMissing(t, anchor) == AnchorIndices(t, anchor) = {}

\* the last row carrying the anchor
get_rowLast(t, anchor) ==
    LET S == AnchorIndices(t, anchor)
    IN  t[CHOOSE k \in S : \A j \in S : k >= j]

\* get_row: the first row carrying the anchor
get_row(t, anchor) ==
    LET S == AnchorIndices(t, anchor)
    IN  t[CHOOSE k \in S : \A j \in S : k <= j]

get_rows_by_anchor(t, anchor) ==
    SelectSeq(t, LAMBDA row : row.anchor = anchor)

\* the anchors get_row is called with and fails on, in call order
MissingAnchors(t) ==
    SelectSeq(RequiredAnchors, LAMBDA a : RowMissing(t, a))

\* meta.get(key, default)
MetaGet(m, key, default) == IF key \in DOMAIN m THEN m[key] ELSE default

\* pct with the zero-denominator case answered 0.0 instead of None
pctZeroOnZero(num, denom) ==
    IF denom = 0 THEN Rat(0, 1) ELSE Rat(100 * num, denom)

\* pct(num, denom): None on a zero denominator, else 100 * num / denom
pct(num, denom) == IF denom = 0 THEN None ELSE Rat(100 * num, denom)

\* format_value(val): val / 1000 with one decimal, grouped, suffix T
format_value(currency, val) ==
    currency \o " " \o FmtGrouped1(Rat(val, 1000)) \o "T"

(***************************************************************************)
(* plot_income_sankey: the values read from the core rows.                 *)
(***************************************************************************)
rev_total(t)  == get_row(t, "REV_TOTAL").current
\* cogs read without abs()
cogsSigned(t) == get_row(t, "COGS_TOTAL").current

cogs(t)       == Abs(get_row(t, "COGS_TOTAL").current)
gp(t)         == get_row(t, "GP_TOTAL").current
opex_total(t) == Abs(get_row(t, "OPEX_TOTAL").current)
ebit(t)       == get_row(t, "EBIT_TOTAL").current
pbt(t)        == get_row(t, "PBT_TOTAL").current
tax(t)        == Abs(get_row(t, "TAX_EXPENSE").current)
net_profit(t) == get_row(t, "NET_PROFIT_TOTAL").current

segments(t) == get_rows_by_anchor(t, SegmentAnchor)
n_seg(t)    == Len(segments(t))

idx_rev(t)  == n_seg(t)
idx_cogs(t) == n_seg(t) + 1
idx_gp(t)   == n_seg(t) + 2
idx_opex(t) == n_seg(t) + 3
idx_ebit(t) == n_seg(t) + 4
idx_pbt(t)  == n_seg(t) + 5
idx_tax(t)  == n_seg(t) + 6
idx_np(t)   == n_seg(t) + 7

(***************************************************************************)
(* Node names and flows.                                                   *)
(***************************************************************************)
\* the node list with the segment names appended after the core names
BuildNodesSegmentsLast(t) ==
    <<get_row(t, "REV_TOTAL").display_name,
      get_row(t, "COGS_TOTAL").display_name,
      get_row(t, "GP_TOTAL").display_name,
      get_row(t, "OPEX_TOTAL").display_name,
      get_row(t, "EBIT_TOTAL").display_name,
      get_row(t, "PBT_TOTAL").display_name,
      get_row(t, "TAX_EXPENSE").display_name,
      get_row(t, "NET_PROFIT_TOTAL").display_name>>
    \o [k \in 1..n_seg(t) |-> segments(t)[k].display_name]

BuildNodes(t) ==
    [k \in 1..n_seg(t) |-> segments(t)[k].display_name]
    \o <<get_row(t, "REV_TOTAL").display_name,
         get_row(t, "COGS_TOTAL").display_name,
         get_row(t, "GP_TOTAL").display_name,
         get_row(t, "OPEX_TOTAL").display_name,
         get_row(t, "EBIT_TOTAL").display_name,
         get_row(t, "PBT_TOTAL").display_name,
         get_row(t, "TAX_EXPENSE").display_name,
         get_row(t, "NET_PROFIT_TOTAL").display_name>>

\* the flows with the segments whose current is 0 skipped
BuildFlowsSkipZeroSegments(t) ==
    SelectSeq([k \in 1..n_seg(t) |->
                  <<k - 1, idx_rev(t), segments(t)[k].current>>],
              LAMBDA f : f[3] # 0)
    \o <<<<idx_rev(t),  idx_cogs(t), cogs(t)>>,
         <<idx_rev(t),  idx_gp(t),   gp(t)>>,
         <<idx_gp(t),   idx_opex(t), opex_total(t)>>,
         <<idx_gp(t),   idx_ebit(t), ebit(t)>>,
         <<idx_ebit(t), idx_pbt(t),  pbt(t)>>,
         <<idx_pbt(t),  idx_tax(t),  tax(t)>>,
         <<idx_pbt(t),  idx_np(t),   net_profit(t)>>>>

\* the flows with the tax edge drawn from Tax back to Pre-tax Profit
BuildFlowsTaxReversed(t) ==
    [k \in 1..n_seg(t) |-> <<k - 1, idx_rev(t), segments(t)[k].current>>]
    \o <<<<idx_rev(t),  idx_cogs(t), cogs(t)>>,
         <<idx_rev(t),  idx_gp(t),   gp(t)>>,
         <<idx_gp(t),   idx_opex(t), opex_total(t)>>,
         <<idx_gp(t),   idx_ebit(t), ebit(t)>>,
         <<idx_ebit(t), idx_pbt(t),  pbt(t)>>,
         <<idx_tax(t),  idx_pbt(t),  tax(t)>>,
         <<idx_pbt(t),  idx_np(t),   net_profit(t)>>>>

\* a flow is <<source, target, value>>
BuildFlows(t) ==
    [k \in 1..n_seg(t) |-> <<k - 1, idx_rev(t), segments(t)[k].current>>]
    \o <<<<idx_rev(t),  idx_cogs(t), cogs(t)>>,
         <<idx_rev(t),  idx_gp(t),   gp(t)>>,
         <<idx_gp(t),   idx_opex(t), opex_total(t)>>,
         <<idx_gp(t),   idx_ebit(t), ebit(t)>>,
         <<idx_ebit(t), idx_pbt(t),  pbt(t)>>,
         <<idx_pbt(t),  idx_tax(t),  tax(t)>>,
         <<idx_pbt(t),  idx_np(t),   net_profit(t)>>>>

Source(fl) == [k \in 1..Len(fl) |-> fl[k][1]]
Target(fl) == [k \in 1..Len(fl) |-> fl[k][2]]
Value(fl)  == [k \in 1..Len(fl) |-> fl[k][3]]

(***************************************************************************)
(* Layout and colours.                                                     *)
(***************************************************************************)
\* a list of n copies of x
Repeat(x, n) == [k \in 1..n |-> x]

\* the segments spread with the step 0.6 / n_seg, so that the last one stays
\* short of 0.8
y_segShortStep(n) ==
    IF n > 1
    THEN [k \in 1..n |->
            RatAdd(Rat(2, 10), RatMul(Rat(k - 1, 1), Rat(6, 10 * n)))]
    ELSE IF n = 1 THEN <<Rat(4, 10)>>
    ELSE <<>>

\* y_seg: 0.2 + i * (0.6 / (n_seg - 1)); [0.4] for one segment; [] for none
y_seg(n) ==
    IF n > 1
    THEN [k \in 1..n |->
            RatAdd(Rat(2, 10),
                   RatMul(Rat(k - 1, 1), Rat(6, 10 * (n - 1))))]
    ELSE IF n = 1 THEN <<Rat(4, 10)>>
    ELSE <<>>

BuildXPos(n) ==
    Repeat(Rat(5, 100), n)
    \o <<Rat(25, 100), Rat(45, 100), Rat(45, 100), Rat(65, 100),
         Rat(65, 100), Rat(82, 100), Rat(98, 100), Rat(98, 100)>>

BuildYPos(n) ==
    y_seg(n)
    \o <<Rat(40, 100), Rat(80, 100), Rat(15, 100), Rat(45, 100),
         Rat(10, 100), Rat(8, 100), Rat(30, 100), Rat(5, 100)>>

Grey      == "rgba(128, 128, 128, 0.8)"
Red       == "rgba(220, 20, 60, 0.8)"
Green     == "rgba(46, 139, 87, 0.8)"
LinkGrey  == "rgba(180, 180, 180, 0.4)"
LinkRed   == "rgba(255, 182, 193, 0.4)"
LinkGreen == "rgba(144, 238, 144, 0.4)"

BuildNodeColors(n) ==
    Repeat(Grey, n) \o <<Grey, Red, Green, Red, Green, Green, Red, Green>>

BuildLinkColors(n) ==
    Repeat(LinkGrey, n)
    \o <<LinkRed, LinkGreen, LinkRed, LinkGreen, LinkGreen, LinkRed,
         LinkGreen>>

(***************************************************************************)
(* Node values: a running maximum over the flows, started at 0.            *)
(***************************************************************************)
\* one iteration of the loop: node_values[s] then node_values[t]
NodeValueStep(nv, f) ==
    LET nv1 == [nv EXCEPT ![f[1] + 1] = Max(@, f[3])]
    IN  [nv1 EXCEPT ![f[2] + 1] = Max(@, f[3])]

RECURSIVE NodeValuesLoop(_, _, _)
NodeValuesLoop(nv, fl, k) ==
    IF k > Len(fl) THEN nv
    ELSE NodeValuesLoop(NodeValueStep(nv, fl[k]), fl, k + 1)

BuildNodeValues(nd, fl) == NodeValuesLoop(Repeat(0, Len(nd)), fl, 1)

(***************************************************************************)
(* Node percentages.                                                       *)
(***************************************************************************)
\* the text stored for a percentage p: left empty when p is None
PctLabel(p, base) ==
    IF p # None THEN Fmt1(p) \o "% of " \o base ELSE ""

SegmentPct(t) ==
    [k \in 1..n_seg(t) |->
        PctLabel(pct(segments(t)[k].current, rev_total(t)), "Revenue")]

RevenuePct(t) == "100.0% of Revenue"
CogsPct(t)    == PctLabel(pct(cogs(t), rev_total(t)), "Revenue")
GpPct(t)      == PctLabel(pct(gp(t), rev_total(t)), "Revenue")
OpexPct(t)    == PctLabel(pct(opex_total(t), gp(t)), "Gross profit")
\* EBIT measured against Revenue instead of Gross Profit
EbitPctOfRevenue(t) == PctLabel(pct(ebit(t), rev_total(t)), "Revenue")

EbitPct(t)    == PctLabel(pct(ebit(t), gp(t)), "Gross profit")
PbtPct(t)     == PctLabel(pct(pbt(t), ebit(t)), "EBIT")
TaxPct(t)     == PctLabel(pct(tax(t), pbt(t)), "PBT")
NpPct(t)      == PctLabel(pct(net_profit(t), pbt(t)), "PBT")

BuildPctText(t) ==
    SegmentPct(t)
    \o <<RevenuePct(t), CogsPct(t), GpPct(t), OpexPct(t), EbitPct(t),
         PbtPct(t), TaxPct(t), NpPct(t)>>

(***************************************************************************)
(* Node labels.                                                            *)
(***************************************************************************)
Label(name, value_str, pct_str) ==
    IF pct_str # ""
    THEN "<b>" \o name \o "</b><br>" \o value_str \o "<br>" \o pct_str
    ELSE "<b>" \o name \o "</b><br>" \o value_str

BuildLabels(currency, nd, nv, pt) ==
    [k \in 1..Len(nd) |-> Label(nd[k], format_value(currency, nv[k]), pt[k])]

(***************************************************************************)
(* Link percentages: each flow against the total outflow of its source.    *)
(***************************************************************************)
\* total_out[s]: the sum of the values of the flows whose source is s
RECURSIVE TotalOutLoop(_, _, _)
TotalOutLoop(fl, s, k) ==
    IF k > Len(fl) THEN 0
    ELSE (IF fl[k][1] = s THEN fl[k][3] ELSE 0) + TotalOutLoop(fl, s, k + 1)

\* total_out accumulated under one key for all sources
total_outAllFlows(fl, s) ==
    LET AllLoop[k \in 1..(Len(fl) + 1)] ==
            IF k > Len(fl) THEN 0 ELSE fl[k][3] + AllLoop[k + 1]
    IN  AllLoop[1]

total_out(fl, s) == TotalOutLoop(fl, s, 1)

\* the link percentage with the total tested for > 0 instead of truthiness
LinkPctOfPositiveTotal(fl, f) ==
    LET tot == total_out(fl, f[1])
        p   == IF tot > 0 THEN pct(f[3], tot) ELSE None
    IN  IF p # None THEN p ELSE Rat(0, 1)

\* p = pct(v, total_out[s]) if total_out.get(s) else None; p or 0.0
LinkPctOf(fl, f) ==
    LET tot == total_out(fl, f[1])
        p   == IF tot # 0 THEN pct(f[3], tot) ELSE None
    IN  IF p # None THEN p ELSE Rat(0, 1)

\* the percentages of an earlier call kept in a module-level list and
\* handed out again
BuildLinkPctCached(fl) ==
    IF link_pct # <<>> THEN link_pct
    ELSE [k \in 1..Len(fl) |-> LinkPctOf(fl, fl[k])]

BuildLinkPct(fl) == [k \in 1..Len(fl) |-> LinkPctOf(fl, fl[k])]

(***************************************************************************)
(* The figure handed to the rendering sink.                                *)
(***************************************************************************)
BuildFigure(m, fl, lb, nc, xp, yp, lc, lp) ==
    [node_label      |-> lb,
     node_color      |-> nc,
     node_x          |-> xp,
     node_y          |-> yp,
     link_source     |-> Source(fl),
     link_target     |-> Target(fl),
     link_value      |-> Value(fl),
     link_color      |-> lc,
     link_customdata |-> lp,
     link_hover_unit |-> "(" \o MetaGet(m, "currency", "IDR") \o " "
                             \o MetaGet(m, "unit", "million") \o ")",
     title           |-> "<b>" \o m["company"] \o "</b><br>"
                             \o m["period_label"]
                             \o " Income Statement Flow"]

(***************************************************************************)
(* Values shared by the components.                                        *)
(***************************************************************************)
\* app.py CODES
CODES ==
    <<"ULTJ", "MYOR", "CMRY", "UNVR", "INDF", "ICBP", "KEJU", "DMND", "GOOD">>

Range(f) == {f[k] : k \in DOMAIN f}

\* a DataFrame: its column labels and its rows, one record per row
DataFrame(cols, rws) == [columns |-> cols, rows |-> rws]

\* pd.DataFrame()
EmptyDataFrame == DataFrame(<<>>, <<>>)

\* no data_extraction call is running
DataIdle ==
    /\ dx_fn = "none"
    /\ dx_pc = "idle"
    /\ code_arg = ""
    /\ client = "None"
    /\ creds = "ok"
    /\ queries = <<>>
    /\ responses = <<>>
    /\ printed = <<>>
    /\ df_all = None
    /\ df_quarter = None
    /\ dx_ret = None
    /\ dx_err = ""

RenderIdle ==
    /\ rd_fn = "none"
    /\ rd_pc = "idle"
    /\ rd_code = ""
    /\ rd_df = None
    /\ rd_err = ""
    /\ st_out = <<>>
    /\ competitors_sorted = <<>>
    /\ final_cols = <<>>
    /\ category = <<>>
    /\ df_core = None
    /\ params = <<>>
    /\ left_default_idx = 0
    /\ right_default_idx = 0
    /\ left_param = ""
    /\ right_param = ""
    /\ cdi_pc = "idle"
    /\ cdi_args = None
    /\ cdi_ret = 0

FormatIdle ==
    /\ fmt_x = None
    /\ fmt_pc = "idle"
    /\ fmt_out = ""

\* no browser session yet: st.session_state is empty, the select box shows
\* its first option
AppIdle ==
    /\ selected = CODES[1]
    /\ session_state = [keys |-> {}, active_code |-> None]
    /\ runs = 0
    /\ app_pc = "idle"
    /\ app_err = ""
    /\ stages = <<>>

(***************************************************************************)
(* Payloads the model starts from.                                         *)
(***************************************************************************)
Reverse(s) == [k \in 1..Len(s) |-> s[Len(s) + 1 - k]]

\* the example of the specification's section 8
ExampleValues == <<1000, -400, 600, -300, 300, 280, -70, 210>>

\* a profitable statement with negative cost rows
BaseValues == <<2, -3, 2, -3, 2, 2, -3, 2>>

\* BaseValues with one line item changed
NearBaseValues ==
    {[k \in 1..8 |-> IF k = j THEN x ELSE BaseValues[k]] :
        j \in 1..8, x \in Values}

\* BaseValues with REV_TOTAL, COGS_TOTAL and GP_TOTAL changed
UpstreamValues ==
    {[k \in 1..8 |-> IF k <= 3 THEN u[k] ELSE BaseValues[k]] :
        u \in [1..3 -> Values]}

\* meta with both optional keys, with neither, and with another unit
Metas ==
    {DefaultMeta,
     [company |-> "ACME", period_label |-> "FY2024"],
     [company |-> "ACME", period_label |-> "FY2024", currency |-> "USD",
      unit |-> "billion"]}

\* segments first, then the core rows in statement order
OrderedTable(vals, segs) == SegmentRows(segs) \o RequiredRows(vals)

\* core rows in reverse order, a row of another anchor in front, the
\* segments split around the core rows
ScrambledTable(vals, segs) ==
    LET sr == SegmentRows(segs)
    IN  <<Row("OTHER_INCOME", "Other income", 2)>>
        \o (IF Len(sr) = 0 THEN <<>> ELSE <<sr[1]>>)
        \o Reverse(RequiredRows(vals))
        \o (IF Len(sr) <= 1 THEN <<>> ELSE SubSeq(sr, 2, Len(sr)))

\* the core rows at the positions of keep only
PartialTable(vals, segs, keep) ==
    SegmentRows(segs)
    \o SelectSeq(RequiredRows(vals),
                 LAMBDA row : \E k \in keep : RequiredAnchors[k] = row.anchor)

Unbuilt ==
    /\ pc = "loaded"
    /\ err = ""
    /\ nodes = <<>>
    /\ flows = <<>>
    /\ x_pos = <<>>
    /\ y_pos = <<>>
    /\ node_colors = <<>>
    /\ link_colors = <<>>
    /\ node_values = <<>>
    /\ pct_text = <<>>
    /\ labels = <<>>
    /\ link_pct = <<>>
    /\ fig = None
    /\ builds = <<>>

\* every combination of signs of the eight core rows, no segment row
InitCore ==
    /\ \E vals \in [1..8 -> Values] : table = OrderedTable(vals, <<>>)
    /\ meta = DefaultMeta
    /\ Unbuilt

\* every combination of segment values with the rows the segment flows
\* meet at the Revenue node (REV_TOTAL, COGS_TOTAL, GP_TOTAL)
InitSegments ==
    /\ \E vals \in UpstreamValues, segs \in SegmentValues :
          table = OrderedTable(vals, segs)
    /\ meta = DefaultMeta
    /\ Unbuilt

InitScrambled ==
    /\ \E vals \in NearBaseValues, segs \in SegmentValues :
          table = ScrambledTable(vals, segs)
    /\ meta \in Metas
    /\ Unbuilt

InitMissing ==
    /\ \E keep \in (SUBSET (1..8)) \ {1..8}, segs \in SegmentValues :
          table = PartialTable(BaseValues, segs, keep)
    /\ meta = DefaultMeta
    /\ Unbuilt

InitExample ==
    /\ table = OrderedTable(ExampleValues, <<>>)
    /\ meta \in Metas
    /\ Unbuilt

\* the complete table with one more row for one of the required anchors,
\* under another name and with any value, put in front of every row or
\* after every row
DuplicatedTable(vals, segs, j, v, inFront) ==
    LET extra == <<Row(RequiredAnchors[j], "Restated " \o RequiredNames[j], v)>>
    IN  IF inFront THEN extra \o OrderedTable(vals, segs)
        ELSE OrderedTable(vals, segs) \o extra

InitDuplicated ==
    /\ \E j \in 1..8, v \in Values, inFront \in BOOLEAN :
          table = DuplicatedTable(BaseValues, <<2>>, j, v, inFront)
    /\ meta = DefaultMeta
    /\ Unbuilt

\* up to MaxLayoutSeg segments of one value each, for the layout
InitLayout ==
    /\ \E n \in 0..MaxLayoutSeg, v \in Values :
          table = OrderedTable(BaseValues, Repeat(v, n))
    /\ meta = DefaultMeta
    /\ Unbuilt

Init ==
    /\ \/ InitCore
       \/ InitSegments
       \/ InitScrambled
       \/ InitMissing
       \/ InitExample
       \/ InitLayout
       \/ InitDuplicated
    /\ DataIdle
    /\ RenderIdle
    /\ FormatIdle
    /\ AppIdle

(***************************************************************************)
(* plot_income_sankey(company_code) on the loaded payload.                 *)
(***************************************************************************)
\* the ValueError caught and an empty figure returned in its place
PlotSwallowsError(t, m) ==
    /\ pc' = "done"
    /\ err' = ""
    /\ fig' = BuildFigure(m, <<>>, <<>>, <<>>, <<>>, <<>>, <<>>, <<>>)
    /\ UNCHANGED <<nodes, flows, x_pos, y_pos, node_colors, link_colors,
                   node_values, pct_text, labels, link_pct>>

\* get_row raised: nothing is built, the ValueError reaches the caller
PlotRaises(t, m) ==
    /\ pc' = "failed"
    /\ err' = "Row not found for anchor=" \o Head(MissingAnchors(t))
    /\ UNCHANGED <<nodes, flows, x_pos, y_pos, node_colors, link_colors,
                   node_values, pct_text, labels, link_pct, fig>>

PlotReturns(t, m) ==
    LET nd == BuildNodes(t)
        fl == BuildFlows(t)
        n  == n_seg(t)
        xp == BuildXPos(n)
        yp == BuildYPos(n)
        nc == BuildNodeColors(n)
        lc == BuildLinkColors(n)
        nv == BuildNodeValues(nd, fl)
        pt == BuildPctText(t)
        lb == BuildLabels(MetaGet(m, "currency", "IDR"), nd, nv, pt)
        lp == BuildLinkPct(fl)
    IN  /\ pc' = "done"
        /\ err' = ""
        /\ nodes' = nd
        /\ flows' = fl
        /\ x_pos' = xp
        /\ y_pos' = yp
        /\ node_colors' = nc
        /\ link_colors' = lc
        /\ node_values' = nv
        /\ pct_text' = pt
        /\ labels' = lb
        /\ link_pct' = lp
        /\ fig' = BuildFigure(m, fl, lb, nc, xp, yp, lc, lp)

\* what a call gives back: the exception, or everything it built
CallResult ==
    IF pc = "failed" THEN [raised |-> err]
    ELSE [nodes |-> nodes, flows |-> flows, x_pos |-> x_pos, y_pos |-> y_pos,
          node_colors |-> node_colors, link_colors |-> link_colors,
          node_values |-> node_values, pct_text |-> pct_text,
          labels |-> labels, link_pct |-> link_pct, fig |-> fig]

\* one call on the payload (t, m)
plot_income_sankey(t, m) ==
    /\ IF MissingAnchors(t) # <<>> THEN PlotRaises(t, m) ELSE PlotReturns(t, m)
    /\ table' = t
    /\ meta' = m
    /\ builds' = Append(builds, [table |-> t, meta |-> m,
                                 result |-> CallResult'])

PlotIncomeSankey ==
    /\ pc = "loaded"
    /\ plot_income_sankey(table, meta)
    /\ UNCHANGED outsideSankey

Next == PlotIncomeSankey

Spec == Init /\ [][Next]_vars

(***************************************************************************)
(* data_extraction.py: the warehouse and the client.                       *)
(***************************************************************************)
\* no payload is loaded and no graph is being built
SankeyIdle ==
    /\ table = <<>>
    /\ meta = DefaultMeta
    /\ pc = "idle"
    /\ err = ""
    /\ nodes = <<>>
    /\ flows = <<>>
    /\ x_pos = <<>>
    /\ y_pos = <<>>
    /\ node_colors = <<>>
    /\ link_colors = <<>>
    /\ node_values = <<>>
    /\ pct_text = <<>>
    /\ labels = <<>>
    /\ link_pct = <<>>
    /\ fig = None
    /\ builds = <<>>

(***************************************************************************)
(* plot_income_sankey called several times by one process.                 *)
(***************************************************************************)
MaxBuilds == 3

\* the payload files of the companies: one complete, one with segments, one
\* in another row order, one without its NET_PROFIT_TOTAL row
BuildTables ==
    {OrderedTable(BaseValues, <<>>),
     OrderedTable(ExampleValues, <<2, 2>>),
     ScrambledTable(BaseValues, <<2>>),
     PartialTable(BaseValues, <<>>, 1..7)}

BuildMetas ==
    {DefaultMeta,
     [company |-> "ACME", period_label |-> "FY2024", currency |-> "USD",
      unit |-> "billion"]}

InitBuilds ==
    /\ SankeyIdle
    /\ DataIdle
    /\ RenderIdle
    /\ FormatIdle
    /\ AppIdle

\* a call reads the payload of the company it is given and builds from it
PlotIncomeSankeyAgain ==
    /\ Len(builds) < MaxBuilds
    /\ \E t \in BuildTables, m \in BuildMetas : plot_income_sankey(t, m)
    /\ UNCHANGED outsideSankey

\* the process ends and another starts: nothing a module keeps survives;
\* the record of the calls made is kept
Restart ==
    /\ pc \in {"done", "failed"}
    /\ table' = <<>>
    /\ meta' = DefaultMeta
    /\ pc' = "idle"
    /\ err' = ""
    /\ nodes' = <<>>
    /\ flows' = <<>>
    /\ x_pos' = <<>>
    /\ y_pos' = <<>>
    /\ node_colors' = <<>>
    /\ link_colors' = <<>>
    /\ node_values' = <<>>
    /\ pct_text' = <<>>
    /\ labels' = <<>>
    /\ link_pct' = <<>>
    /\ fig' = None
    /\ UNCHANGED builds
    /\ UNCHANGED outsideSankey

NextBuilds == PlotIncomeSankeyAgain \/ Restart

SpecBuilds == InitBuilds /\ [][NextBuilds]_vars

\* the state of GOOGLE_APPLICATION_CREDENTIALS: not set, set to a path
\* without a file, set to a file bigquery.Client rejects, set to a good file
CredentialStates == {"unset", "no_file", "invalid", "ok"}

\* what the warehouse does with a query: rows, an empty result, or an
\* exception raised by client.query or by to_dataframe
QueryOutcomes ==
    {"rows", "no_rows", "query:GoogleCloudError", "query:Exception",
     "to_dataframe:GoogleCloudError", "to_dataframe:Exception"}

QuerySucceeds(outcome) == outcome \in {"rows", "no_rows"}

BIGQUERY_TABLE_ALL     == "silver-ripple-355716.stocks_idx.fact_fundamental_all"
BIGQUERY_TABLE_QUARTER ==
    "silver-ripple-355716.stocks_idx.fact_fundamental_quarterly"

\* the two queries: BIGQUERY_TABLE_ALL restricted to the sub-sector of the
\* code, and a table filtered on the code
SubsectorQuery == "ALL where sub_sector of code"
TableQuery(tbl) == tbl \o " where code"

AllColumns     == <<"code", "metric", "clean_value">>
QuarterColumns == <<"code", "parameter", "year", "quarter", "value_final">>

\* the frame a successful query converts to
ResultFrame(query, code, outcome) ==
    IF query = TableQuery(BIGQUERY_TABLE_QUARTER)
    THEN DataFrame(QuarterColumns,
                   IF outcome = "no_rows" THEN <<>>
                   ELSE <<[code |-> code, parameter |-> "Revenue",
                           year |-> 2024, quarter |-> "Q1",
                           value_final |-> 2]>>)
    ELSE DataFrame(AllColumns,
                   IF outcome = "no_rows" THEN <<>>
                   ELSE <<[code |-> code, metric |-> "market_cap",
                           clean_value |-> 2]>>)

\* get_bigquery_client: RuntimeError unless the credentials file exists
get_bigquery_client(cr) ==
    LET debug == <<"[DEBUG] GOOGLE_APPLICATION_CREDENTIALS = "
                   \o (IF cr = "unset" THEN "None" ELSE "creds.json")>>
    IN  IF cr = "unset"
        THEN [raised |-> TRUE,
              error |->
                "RuntimeError: GOOGLE_APPLICATION_CREDENTIALS is not set",
              value |-> "None", printed |-> debug]
        ELSE IF cr = "no_file"
        THEN [raised |-> TRUE,
              error |-> "RuntimeError: Credentials file not found",
              value |-> "None", printed |-> debug]
        ELSE IF cr = "invalid"
        THEN [raised |-> TRUE,
              error |-> "DefaultCredentialsError",
              value |-> "None", printed |-> debug]
        ELSE [raised |-> FALSE, error |-> "", value |-> "client",
              printed |-> debug]

\* if client is None: client = get_bigquery_client(PROJECT_ID)
ResolveClient(cl, cr) ==
    IF cl = "None" THEN get_bigquery_client(cr)
    ELSE [raised |-> FALSE, error |-> "", value |-> cl, printed |-> <<>>]

\* the try block of get_data and of get_all_same_subsector: one query,
\* its frame on success, pd.DataFrame() and a printed line on an exception
RunQuery(query, code, outcome, what, tail, before) ==
    IF QuerySucceeds(outcome)
    THEN [raised |-> FALSE, error |-> "",
          df |-> ResultFrame(query, code, outcome),
          issued |-> <<query>>, printed |-> before]
    ELSE [raised |-> FALSE, error |-> "",
          df |-> EmptyDataFrame,
          issued |-> <<query>>,
          printed |-> Append(before,
            (IF outcome \in {"query:GoogleCloudError",
                             "to_dataframe:GoogleCloudError"}
             THEN "[ERROR] BigQuery error while fetching "
             ELSE "[ERROR] Unexpected error while fetching ")
            \o what \o " for code '" \o code \o "'" \o tail)]

\* the call ends in the RuntimeError of get_bigquery_client
ClientFailure(c) ==
    [raised |-> TRUE, error |-> c.error, df |-> None, issued |-> <<>>,
     printed |-> c.printed]

get_dataPropagating(code, tbl, cl, cr, outcome) ==
    LET c == ResolveClient(cl, cr)
        r == RunQuery(TableQuery(tbl), code, outcome, "data",
                      " from " \o tbl, c.printed)
    IN  IF c.raised THEN ClientFailure(c)
        ELSE IF QuerySucceeds(outcome) THEN r
        ELSE [r EXCEPT !.raised = TRUE, !.error = outcome, !.df = None]

\* get_data(code, table, client)
get_data(code, tbl, cl, cr, outcome) ==
    LET c == ResolveClient(cl, cr)
    IN  IF c.raised THEN ClientFailure(c)
        ELSE RunQuery(TableQuery(tbl), code, outcome, "data",
                      " from " \o tbl, c.printed)

get_all_same_subsectorRetrying(code, cl, cr, outcome) ==
    LET c == ResolveClient(cl, cr)
        r == RunQuery(SubsectorQuery, code, outcome, "ALL-table data", "",
                      c.printed)
    IN  IF c.raised THEN ClientFailure(c)
        ELSE IF QuerySucceeds(outcome) THEN r
        ELSE [r EXCEPT !.issued = <<SubsectorQuery, SubsectorQuery>>]

\* get_all_same_subsector(code, client)
get_all_same_subsector(code, cl, cr, outcome) ==
    LET c == ResolveClient(cl, cr)
    IN  IF c.raised THEN ClientFailure(c)
        ELSE RunQuery(SubsectorQuery, code, outcome, "ALL-table data", "",
                      c.printed)

\* one call of a fetching function on the idle module
InitData ==
    /\ SankeyIdle
    /\ RenderIdle
    /\ FormatIdle
    /\ AppIdle
    /\ dx_fn = "none"
    /\ dx_pc = "idle"
    /\ code_arg \in Range(CODES)
    /\ client \in {"None", "client"}
    /\ creds \in CredentialStates
    /\ queries = <<>>
    /\ responses = <<>>
    /\ printed = <<>>
    /\ df_all = None
    /\ df_quarter = None
    /\ dx_ret = None
    /\ dx_err = ""

\* what the warehouse answered to the queries of r
Answers(r, outcome) == [k \in 1..Len(r.issued) |-> outcome]

\* a caller calls get_data(code, table, client) and gets its result
CallGetData ==
    /\ dx_pc = "idle"
    /\ \E tbl \in {BIGQUERY_TABLE_ALL, BIGQUERY_TABLE_QUARTER} :
       \E outcome \in QueryOutcomes :
          LET r == get_data(code_arg, tbl, client, creds, outcome)
          IN  /\ dx_fn' = "get_data"
              /\ dx_pc' = IF r.raised THEN "raised" ELSE "returned"
              /\ queries' = queries \o r.issued
              /\ responses' = responses \o Answers(r, outcome)
              /\ printed' = printed \o r.printed
              /\ dx_ret' = r.df
              /\ dx_err' = r.error
    /\ UNCHANGED <<code_arg, client, creds, df_all, df_quarter>>
    /\ UNCHANGED outsideData

\* a caller calls get_all_same_subsector(code, client) and gets its result
CallGetAllSameSubsector ==
    /\ dx_pc = "idle"
    /\ \E outcome \in QueryOutcomes :
          LET r == get_all_same_subsector(code_arg, client, creds, outcome)
          IN  /\ dx_fn' = "get_all_same_subsector"
              /\ dx_pc' = IF r.raised THEN "raised" ELSE "returned"
              /\ queries' = queries \o r.issued
              /\ responses' = responses \o Answers(r, outcome)
              /\ printed' = printed \o r.printed
              /\ dx_ret' = r.df
              /\ dx_err' = r.error
    /\ UNCHANGED <<code_arg, client, creds, df_all, df_quarter>>
    /\ UNCHANGED outsideData

\* get_all_and_quarterly, entry: if client is None, obtain one
GaqClient ==
    /\ dx_pc = "idle"
    /\ LET c == ResolveClient(client, creds)
       IN  /\ dx_fn' = "get_all_and_quarterly"
           /\ printed' = printed \o c.printed
           /\ dx_pc' = IF c.raised THEN "raised" ELSE "query_all"
           /\ dx_err' = c.error
           /\ client' = c.value
    /\ UNCHANGED <<code_arg, creds, queries, responses, df_all, df_quarter,
                   dx_ret>>
    /\ UNCHANGED outsideData

\* df_all = get_all_same_subsector(code, client)
GaqAll ==
    /\ dx_fn = "get_all_and_quarterly"
    /\ dx_pc = "query_all"
    /\ \E outcome \in QueryOutcomes :
          LET r == get_all_same_subsector(code_arg, client, creds, outcome)
          IN  /\ dx_pc' = IF r.raised THEN "raised" ELSE "query_quarter"
              /\ queries' = queries \o r.issued
              /\ responses' = responses \o Answers(r, outcome)
              /\ printed' = printed \o r.printed
              /\ df_all' = r.df
              /\ dx_err' = r.error
    /\ UNCHANGED <<dx_fn, code_arg, client, creds, df_quarter, dx_ret>>
    /\ UNCHANGED outsideData

\* df_quarter = get_data(code, BIGQUERY_TABLE_QUARTER, client)
GaqQuarter ==
    /\ dx_fn = "get_all_and_quarterly"
    /\ dx_pc = "query_quarter"
    /\ \E outcome \in QueryOutcomes :
          LET r == get_data(code_arg, BIGQUERY_TABLE_QUARTER, client, creds,
                            outcome)
          IN  /\ dx_pc' = IF r.raised THEN "raised" ELSE "return"
              /\ queries' = queries \o r.issued
              /\ responses' = responses \o Answers(r, outcome)
              /\ printed' = printed \o r.printed
              /\ df_quarter' = r.df
              /\ dx_err' = r.error
    /\ UNCHANGED <<dx_fn, code_arg, client, creds, df_all, dx_ret>>
    /\ UNCHANGED outsideData

\* return df_all, df_quarter
GaqReturn ==
    /\ dx_fn = "get_all_and_quarterly"
    /\ dx_pc = "return"
    /\ dx_pc' = "returned"
    /\ dx_ret' = [df_all |-> df_all, df_quarter |-> df_quarter]
    /\ UNCHANGED <<dx_fn, code_arg, client, creds, queries, responses,
                   printed, df_all, df_quarter, dx_err>>
    /\ UNCHANGED outsideData

NextData ==
    \/ CallGetData
    \/ CallGetAllSameSubsector
    \/ GaqClient
    \/ GaqAll
    \/ GaqQuarter
    \/ GaqReturn

SpecData == InitData /\ [][NextData]_vars

(***************************************************************************)
(* human_format (src/ui/fundamental_table.py and plot_table.py).           *)
(*                                                                         *)
(* A number is its sign, its integer part in base 1000 (limbs[1] the       *)
(* units, limbs[2] the thousands, limbs[3] the millions, limbs[4] the      *)
(* billions, limbs[5] the trillions, which may exceed 999) and four        *)
(* decimal places, frac in 0..9999.                                        *)
(***************************************************************************)
NaN == [kind |-> "nan"]
Text(t) == [kind |-> "text", text |-> t]
Number(neg, limbs, frac) ==
    [kind |-> "number", neg |-> neg, limbs |-> limbs, frac |-> frac]

FromInt(v) ==
    Number(v < 0,
           <<Abs(v) % 1000, (Abs(v) \div 1000) % 1000,
             (Abs(v) \div 1000000) % 1000, Abs(v) \div 1000000000, 0>>,
           0)

Pad2(k) == IF k < 10 THEN "0" \o ToString(k) ELSE ToString(k)

\* the 3-digit groups a threshold 1e3, 1e6, 1e9, 1e12 stands above
ThousandsK == 1
ThousandsM == 2
ThousandsB == 3
ThousandsT == 4

AtLeastSigned(x, j) == ~x.neg /\ \E k \in (j + 1)..Len(x.limbs) : x.limbs[k] > 0

\* abs(x) >= 1000^j
AtLeast(x, j) == \E k \in (j + 1)..Len(x.limbs) : x.limbs[k] > 0

\* f"{x / 1000^j:.2f}" for 1000^j <= |x| < 1000^(j+1) (no upper bound for
\* the trillions): the quotient to two decimals, rounded to nearest
Scaled2f(x, j) ==
    LET q == x.limbs[j + 1]
        top == x.limbs[j]
        restZero == x.frac = 0 /\ \A k \in 1..(j - 1) : x.limbs[k] = 0
        h == top \div 10
        d == top % 10
        up == \/ d > 5
              \/ d = 5 /\ ~restZero
              \/ d = 5 /\ restZero /\ h % 2 = 1
        hundredths == q * 100 + h + (IF up THEN 1 ELSE 0)
    IN  (IF x.neg THEN "-" ELSE "") \o ToString(hundredths \div 100) \o "."
          \o Pad2(hundredths % 100)

\* f"{x:.4f}".rstrip("0").rstrip(".") for |x| < 1000
Trimmed4f(x) ==
    LET f == x.frac
        digits == IF f = 0 THEN ""
                  ELSE IF f % 1000 = 0 THEN "." \o ToString(f \div 1000)
                  ELSE IF f % 100 = 0 THEN "." \o Pad2(f \div 100)
                  ELSE IF f % 10 = 0 THEN "." \o Pad3(f \div 10)
                  ELSE "." \o ToString(f \div 1000) \o Pad3(f % 1000)
    IN  (IF x.neg THEN "-" ELSE "") \o ToString(x.limbs[1]) \o digits

human_format(x) ==
    IF x.kind = "nan" THEN ""
    ELSE IF x.kind # "number" THEN x.text
    ELSE IF AtLeast(x, ThousandsT) THEN Scaled2f(x, ThousandsT) \o "T"
    ELSE IF AtLeast(x, ThousandsB) THEN Scaled2f(x, ThousandsB) \o "B"
    ELSE IF AtLeast(x, ThousandsM) THEN Scaled2f(x, ThousandsM) \o "M"
    ELSE IF AtLeast(x, ThousandsK) THEN Scaled2f(x, ThousandsK) \o "K"
    ELSE Trimmed4f(x)

\* the values human_format is applied to: the digit groups 0, 1 and 999
\* reach every threshold from both sides, with and without decimals
LimbValues == {0, 1, 999}
FracValues == {0, 5, 2400, 9999}

FormatInputs ==
    {NaN, Text("n/a")} \cup
    {Number(neg, <<a, b, c, d, e>>, f) :
        neg \in BOOLEAN, a \in LimbValues, b \in LimbValues,
        c \in LimbValues, d \in LimbValues, e \in LimbValues,
        f \in FracValues}

InitFormat ==
    /\ SankeyIdle
    /\ DataIdle
    /\ RenderIdle
    /\ AppIdle
    /\ fmt_x \in FormatInputs
    /\ fmt_pc = "idle"
    /\ fmt_out = ""

HumanFormat ==
    /\ fmt_pc = "idle"
    /\ fmt_pc' = "returned"
    /\ fmt_out' = human_format(fmt_x)
    /\ UNCHANGED fmt_x
    /\ UNCHANGED outsideFormat

NextFormat == HumanFormat

SpecFormat == InitFormat /\ [][NextFormat]_vars

(***************************************************************************)
(* pandas operations on a frame [columns, rows].                           *)
(***************************************************************************)
Min(a, b) == IF a <= b THEN a ELSE b

HasColumn(df, c) == c \in Range(df.columns)

\* drop_duplicates() and unique(): the first occurrence of each element
DropDuplicates(s) ==
    LET F[k \in 0..Len(s)] ==
            IF k = 0 THEN <<>>
            ELSE IF \E j \in 1..(k - 1) : s[j] = s[k] THEN F[k - 1]
            ELSE Append(F[k - 1], s[k])
    IN  F[Len(s)]

\* df[[c1, c2, ...]] on the rows
Project(rws, cols) == [k \in DOMAIN rws |-> [c \in cols |-> rws[k][c]]]

Column(rws, c) == [k \in DOMAIN rws |-> rws[k][c]]

\* sort_values("clean_value", ascending=False).  The default sort is not
\* stable: rows with equal values come out in their frame order ("keep") or
\* in the opposite order ("swap").
TieOrders == {"keep", "swap"}

InsertDescending(sorted, r, ties) ==
    LET ahead == {k \in DOMAIN sorted :
                    \/ sorted[k].clean_value > r.clean_value
                    \/ /\ ties = "keep"
                       /\ sorted[k].clean_value = r.clean_value}
        p == Cardinality(ahead)
    IN  SubSeq(sorted, 1, p) \o <<r>> \o SubSeq(sorted, p + 1, Len(sorted))

SortDescending(rws, ties) ==
    LET F[k \in 0..Len(rws)] ==
            IF k = 0 THEN <<>>
            ELSE InsertDescending(F[k - 1], rws[k], ties)
    IN  F[Len(rws)]

\* head(n) and [:n]
Head_(s, n) == SubSeq(s, 1, Min(n, Len(s)))

\* a cell of a pivoted frame: a value, or NaN where the frame had no row
Cell(v) == FromInt(v)

\* pivot(index="metric", columns="code") raises on two rows for one cell
PivotHasDuplicates(rws) ==
    \E i, j \in DOMAIN rws :
        /\ i # j
        /\ rws[i].metric = rws[j].metric
        /\ rws[i].code = rws[j].code

PivotCell(rws, m, c) ==
    IF \E k \in DOMAIN rws : rws[k].metric = m /\ rws[k].code = c
    THEN Cell((CHOOSE r \in Range(rws) : r.metric = m /\ r.code = c)
              .clean_value)
    ELSE NaN

(***************************************************************************)
(* src/ui/fundamental_table.py: render_core_fundamental_table.             *)
(***************************************************************************)
MaxPeers == 5

core_metrics_in_order ==
    <<"Return On Invested Capital (TTM)",
      "Return on Equity (TTM)",
      "Operating Profit Margin (Quarter)",
      "Current EPS (TTM)",
      "Revenue (Quarter YoY Growth)",
      "EPS Growth (TTM)",
      "Net Income (Quarter YoY Growth)",
      "Cash From Operations (TTM)",
      "Free cash flow (TTM)",
      "Free Cashflow Per Share (TTM)",
      "Debt to Equity Ratio (Quarter)",
      "Interest Coverage (TTM)",
      "Net Debt (Quarter)",
      "Current Ratio (Quarter)",
      "Altman Z-Score (Modified)",
      "Asset Turnover (TTM)",
      "Cash Conversion Cycle (Quarter)",
      "Inventory Turnover (TTM)",
      "Current PE Ratio (TTM)",
      "PEG Ratio">>

metric_to_segmentWithoutPEG ==
    [m \in Range(SubSeq(core_metrics_in_order, 1, 19)) |->
        IF m \in Range(SubSeq(core_metrics_in_order, 1, 4)) THEN "Quality"
        ELSE IF m \in Range(SubSeq(core_metrics_in_order, 5, 7)) THEN "Growth"
        ELSE IF m \in Range(SubSeq(core_metrics_in_order, 8, 10))
        THEN "Cash Flow"
        ELSE IF m \in Range(SubSeq(core_metrics_in_order, 11, 15)) THEN "Risk"
        ELSE IF m \in Range(SubSeq(core_metrics_in_order, 16, 18))
        THEN "Efficiency"
        ELSE "Valuation"]

metric_to_segment ==
    [m \in {"Return On Invested Capital (TTM)", "Return on Equity (TTM)",
            "Operating Profit Margin (Quarter)", "Current EPS (TTM)",
            "Revenue (Quarter YoY Growth)", "EPS Growth (TTM)",
            "Net Income (Quarter YoY Growth)",
            "Cash From Operations (TTM)", "Free cash flow (TTM)",
            "Free Cashflow Per Share (TTM)",
            "Debt to Equity Ratio (Quarter)", "Interest Coverage (TTM)",
            "Net Debt (Quarter)", "Current Ratio (Quarter)",
            "Altman Z-Score (Modified)",
            "Asset Turnover (TTM)", "Cash Conversion Cycle (Quarter)",
            "Inventory Turnover (TTM)",
            "Current PE Ratio (TTM)", "PEG Ratio"} |->
        CASE m \in {"Return On Invested Capital (TTM)",
                    "Return on Equity (TTM)",
                    "Operating Profit Margin (Quarter)",
                    "Current EPS (TTM)"} -> "Quality"
          [] m \in {"Revenue (Quarter YoY Growth)", "EPS Growth (TTM)",
                    "Net Income (Quarter YoY Growth)"} -> "Growth"
          [] m \in {"Cash From Operations (TTM)", "Free cash flow (TTM)",
                    "Free Cashflow Per Share (TTM)"} -> "Cash Flow"
          [] m \in {"Debt to Equity Ratio (Quarter)",
                    "Interest Coverage (TTM)", "Net Debt (Quarter)",
                    "Current Ratio (Quarter)",
                    "Altman Z-Score (Modified)"} -> "Risk"
          [] m \in {"Asset Turnover (TTM)",
                    "Cash Conversion Cycle (Quarter)",
                    "Inventory Turnover (TTM)"} -> "Efficiency"
          [] m \in {"Current PE Ratio (TTM)", "PEG Ratio"} -> "Valuation"]

\* metric_to_segment.get(m, "")
SegmentOf(m) ==
    IF m \in DOMAIN metric_to_segment THEN metric_to_segment[m] ELSE ""

\* the rows of the frame with metric market_cap of a company other than code
MarketRows(df, code) ==
    DropDuplicates(Project(
        SelectSeq(df.rows,
                  LAMBDA r : r.metric = "market_cap" /\ r.code # code),
        {"code", "clean_value"}))

\* competitors_sorted: the codes by descending market_cap, each once, the
\* first five of them
Competitors(df, code, ties) ==
    Head_(DropDuplicates(Column(
              SortDescending(MarketRows(df, code), ties), "code")),
          MaxPeers)

\* df_all[df_all["code"].isin(cols)][["code","metric","clean_value"]]
\*     .drop_duplicates()
FilteredRows(df, cols) ==
    DropDuplicates(Project(
        SelectSeq(df.rows, LAMBDA r : r.code \in Range(cols)),
        {"code", "metric", "clean_value"}))

MetricsAvailable(rws) ==
    SelectSeq(core_metrics_in_order,
              LAMBDA m : \E k \in DOMAIN rws : rws[k].metric = m)

ColumnsPresent(rws, cols) ==
    SelectSeq(cols, LAMBDA c : \E k \in DOMAIN rws : rws[k].code = c)

\* the outcome of a renderer: how it ended and what it computed
Outcome(p, e, out, comp, fc, cat, core) ==
    [pc |-> p, err |-> e, out |-> out, competitors_sorted |-> comp,
     final_cols |-> fc, category |-> cat, df_core |-> core]

Warning(text) == [call |-> "warning", text |-> text]

\* the first column the function reads that the frame does not have
FirstMissingColumn(df) ==
    IF ~HasColumn(df, "metric") THEN "metric"
    ELSE IF ~HasColumn(df, "code") THEN "code"
    ELSE IF ~HasColumn(df, "clean_value") THEN "clean_value"
    ELSE ""

CoreFrame(rws, cols, metrics) ==
    DataFrame(<<"Segment", "Metric">> \o cols,
              [k \in DOMAIN metrics |->
                 [Segment |-> SegmentOf(metrics[k]),
                  Metric |-> metrics[k],
                  cells |-> [j \in DOMAIN cols |->
                               PivotCell(rws, metrics[k], cols[j])]]])

\* sorted(CODES): pivot() puts the company columns in this order
CodesSorted ==
    <<"CMRY", "DMND", "GOOD", "ICBP", "INDF", "KEJU", "MYOR", "ULTJ", "UNVR">>

\* the company columns as pivot() leaves them
PivotColumnOrder(rws, cols) ==
    SelectSeq(CodesSorted,
              LAMBDA c : c \in Range(cols)
                         /\ \E k \in DOMAIN rws : rws[k].code = c)

ColumnOrderAsPivoted(rws, cols) == PivotColumnOrder(rws, cols)

\* df[[c for c in final_cols if c in df.columns]]
ColumnOrder(rws, cols) == ColumnsPresent(rws, cols)

\* styled.format(human_format, subset=numeric_cols): the cells as shown
StyledRows(core) ==
    [k \in DOMAIN core.rows |->
        [j \in DOMAIN core.rows[k].cells |->
            human_format(core.rows[k].cells[j])]]

render_core_fundamental_table(code, df, ties) ==
    IF FirstMissingColumn(df) # ""
    THEN Outcome("raised", "KeyError: '" \o FirstMissingColumn(df) \o "'",
                 <<>>, <<>>, <<>>, <<>>, None)
    ELSE
    LET comp == Competitors(df, code, ties)
        fc == <<code>> \o comp
        df_filtered == FilteredRows(df, fc)
        cols == ColumnOrder(df_filtered, fc)
        metrics_available == MetricsAvailable(df_filtered)
    IN  IF df_filtered = <<>>
        THEN Outcome("returned", "",
                     <<Warning("No data available for this stock.")>>,
                     comp, fc, <<>>, None)
        ELSE IF PivotHasDuplicates(df_filtered)
        THEN Outcome("raised",
                "ValueError: Index contains duplicate entries, cannot reshape",
                <<>>, comp, fc, <<>>, None)
        ELSE IF metrics_available = <<>>
        THEN Outcome("returned", "",
                     <<Warning("No core metrics available for this stock.")>>,
                     comp, fc, <<>>, None)
        ELSE LET core == CoreFrame(df_filtered, cols, metrics_available)
             IN  Outcome("returned", "",
                     <<[call |-> "markdown",
                        text |-> "Core fundamental metrics - peers vs "
                                 \o code,
                        columns |-> core.columns,
                        cells |-> StyledRows(core)]>>,
                     comp, fc, <<>>, core)

(***************************************************************************)
(* plot_table.py: the same table as a script, for code = "CMRY".           *)
(***************************************************************************)
PlotTableCode == "CMRY"

\* category, line 11-13: head(5) of the sorted rows, then the codes, each
\* once
CategoryPeers(df, code, ties) ==
    DropDuplicates(Column(
        Head_(SortDescending(MarketRows(df, code), ties), MaxPeers), "code"))

\* df_core of the script: the pivot restricted to the core metrics, its
\* columns as pivot() ordered them, no Segment column
ScriptCoreFrame(rws, cols, metrics) ==
    DataFrame(cols,
              [k \in DOMAIN metrics |->
                 [Metric |-> metrics[k],
                  cells |-> [j \in DOMAIN cols |->
                               PivotCell(rws, metrics[k], cols[j])]]])

plot_table(df, ties) ==
    IF FirstMissingColumn(df) # ""
    THEN Outcome("raised", "KeyError: '" \o FirstMissingColumn(df) \o "'",
                 <<>>, <<>>, <<>>, <<>>, None)
    ELSE
    LET peers == CategoryPeers(df, PlotTableCode, ties)
        cat == <<PlotTableCode>> \o peers
        df_all_filtered == FilteredRows(df, cat)
        cols == PivotColumnOrder(df_all_filtered, cat)
        metrics_available == MetricsAvailable(df_all_filtered)
        core == ScriptCoreFrame(df_all_filtered, cols, metrics_available)
    IN  IF PivotHasDuplicates(df_all_filtered)
        THEN Outcome("raised",
                "ValueError: Index contains duplicate entries, cannot reshape",
                <<>>, <<>>, <<>>, cat, None)
        ELSE Outcome("returned", "",
                     <<[call |-> "set_page_config", layout |-> "wide"],
                       [call |-> "title",
                        text |-> "Core Fundamental Metrics - FMCG Stocks"],
                       [call |-> "dataframe",
                        columns |-> core.columns,
                        cells |-> StyledRows(core)]>>,
                     <<>>, <<>>, cat, core)

(***************************************************************************)
(* src/ui/fundamental_chart.py: quarterly_fundamental_chart.               *)
(***************************************************************************)
\* get_scale_and_unit(max_abs_value) of the rows' value_final.abs().max()
get_scale_and_unit(rws) ==
    IF \E k \in DOMAIN rws : AtLeast(rws[k].value_final, ThousandsT)
    THEN [scale |-> "1000000000000", unit |-> "T"]
    ELSE IF \E k \in DOMAIN rws : AtLeast(rws[k].value_final, ThousandsB)
    THEN [scale |-> "1000000000", unit |-> "B"]
    ELSE IF \E k \in DOMAIN rws : AtLeast(rws[k].value_final, ThousandsM)
    THEN [scale |-> "1000000", unit |-> "M"]
    ELSE [scale |-> "1.0", unit |-> ""]

\* params.index(name), 0-based
IndexOf(ps, name) == (CHOOSE k \in DOMAIN ps : ps[k] = name) - 1

_choose_default_index(ps, preferred_names, fallback_idx) ==
    LET found == SelectSeq(preferred_names, LAMBDA n : n \in Range(ps))
    IN  IF found # <<>> THEN IndexOf(ps, found[1])
        ELSE IF ps = <<>> THEN 0
        ELSE Max(0, Min(fallback_idx, Len(ps) - 1))

quarter_order == [Q1 |-> 1, Q2 |-> 2, Q3 |-> 3, Q4 |-> 4]

\* df.sort_values(["year", "quarter_num"]): a stable sort on the two keys
PeriodBefore(a, b) ==
    \/ a.year < b.year
    \/ a.year = b.year /\ quarter_order[a.quarter] < quarter_order[b.quarter]

InsertByPeriod(sorted, r) ==
    LET p == Cardinality({k \in DOMAIN sorted : ~PeriodBefore(r, sorted[k])})
    IN  SubSeq(sorted, 1, p) \o <<r>> \o SubSeq(sorted, p + 1, Len(sorted))

SortByPeriod(rws) ==
    LET F[k \in 0..Len(rws)] ==
            IF k = 0 THEN <<>> ELSE InsertByPeriod(F[k - 1], rws[k])
    IN  F[Len(rws)]

Period(r) == ToString(r.year) \o " " \o r.quarter

\* the parameter names in the order sorted() gives them
ParamsSorted ==
    <<"EBITDA", "Net Income", "Net income", "Revenue", "Sales",
      "Total Assets">>

\* a NULL of the warehouse column `parameter`: None in the frame
NullParameter == "<null>"

\* str(p) as an f-string writes it
PyStr(p) == IF p = NullParameter THEN "None" ELSE p

HasNullParameter(rws) == \E k \in DOMAIN rws : rws[k].parameter = NullParameter

HasNamedParameter(rws) == \E k \in DOMAIN rws : rws[k].parameter # NullParameter

\* sorted(df["parameter"].unique()) where it can compare the values: the
\* names in order, or the single None
SortedParams(rws) ==
    SelectSeq(ParamsSorted, LAMBDA n : \E k \in DOMAIN rws : rws[k].parameter = n)
    \o (IF HasNullParameter(rws) THEN <<NullParameter>> ELSE <<>>)

\* the mask taking a NULL for a match of None
ParameterIsOrBothNull(rws, p) == SelectSeq(rws, LAMBDA r : r.parameter = p)

\* df[df["parameter"] == p]: the comparison with None is False on every row
ParameterIs(rws, p) ==
    SelectSeq(rws, LAMBDA r : p # NullParameter /\ r.parameter = p)

LeftPreferred == <<"Revenue", "Sales (Net)", "Net sales", "Sales">>
RightPreferred ==
    <<"Net Income", "Net income", "Net profit", "Profit for the period">>

LeftDefault(ps) == _choose_default_index(ps, LeftPreferred, 0)

\* the right default left where it falls
RightDefaultAsChosen(ps) ==
    _choose_default_index(ps, RightPreferred, Min(1, Len(ps) - 1))

\* the right default, nudged off the left one when there are two parameters
RightDefault(ps) ==
    LET r == _choose_default_index(ps, RightPreferred, Min(1, Len(ps) - 1))
    IN  IF r = LeftDefault(ps) /\ Len(ps) > 1
        THEN (LeftDefault(ps) + 1) % Len(ps)
        ELSE r

ChartOutcome(p, e, out, ps, l, r) ==
    [pc |-> p, err |-> e, out |-> out, params |-> ps,
     left_default_idx |-> IF ps = <<>> THEN 0 ELSE LeftDefault(ps),
     right_default_idx |-> IF ps = <<>> THEN 0 ELSE RightDefault(ps),
     left_param |-> l, right_param |-> r]

Subheader == [call |-> "subheader", text |-> "Quarterly Fundamentals Chart"]

IsEmptyFrame(df) == IF df.columns = <<>> THEN TRUE ELSE df.rows = <<>>

FirstMissingQuarterColumn(df) ==
    IF ~HasColumn(df, "quarter") THEN "quarter"
    ELSE IF ~HasColumn(df, "year") THEN "year"
    ELSE IF ~HasColumn(df, "parameter") THEN "parameter"
    ELSE IF ~HasColumn(df, "value_final") THEN "value_final"
    ELSE ""

AxisTitle(param, unit) ==
    IF unit = "" THEN param ELSE param \o " (" \o unit \o ")"

UnitText(unit) == IF unit = "" THEN "original units" ELSE unit

Layer(param, su, orient) ==
    [metric |-> param, scale |-> su.scale,
     axis_title |-> AxisTitle(param, su.unit), orient |-> orient]

\* the function with the selections the two select boxes return
quarterly_fundamental_chart(code, dq, pick_left, pick_right) ==
    IF (IF dq = None THEN TRUE ELSE IsEmptyFrame(dq))
    THEN ChartOutcome("returned", "",
            <<Subheader,
              Warning("No quarterly data found for " \o code \o ".")>>,
            <<>>, "", "")
    ELSE IF FirstMissingQuarterColumn(dq) # ""
    THEN ChartOutcome("raised",
            "KeyError: '" \o FirstMissingQuarterColumn(dq) \o "'",
            <<Subheader>>, <<>>, "", "")
    ELSE IF HasNullParameter(dq.rows) /\ HasNamedParameter(dq.rows)
    THEN \* sorted() compares a name with None (the None comes first here)
         ChartOutcome("raised",
            "TypeError: '<' not supported between instances of 'str' and 'NoneType'",
            <<Subheader>>, <<>>, "", "")
    ELSE
    LET df == SortByPeriod(dq.rows)
        ps == SortedParams(df)
        periods == DropDuplicates([k \in DOMAIN df |-> Period(df[k])])
        left_df == ParameterIs(df, pick_left)
        right_df == ParameterIs(df, pick_right)
        su_left == get_scale_and_unit(left_df)
        su_right == get_scale_and_unit(right_df)
    IN  IF ps = <<>>
        THEN ChartOutcome("returned", "",
                <<Subheader, Warning("No parameters available to plot.")>>,
                ps, "", "")
        ELSE IF pick_left = pick_right
        THEN IF left_df = <<>>
             THEN ChartOutcome("returned", "",
                    <<Subheader,
                      Warning("No data available for parameter: "
                              \o PyStr(pick_left))>>,
                    ps, pick_left, pick_right)
             ELSE ChartOutcome("returned", "",
                    <<Subheader,
                      [call |-> "write",
                       text |-> "Showing **" \o pick_left
                                \o "** over time (scaled to "
                                \o UnitText(su_left.unit) \o ")."],
                      [call |-> "altair_chart", periods |-> periods,
                       layers |-> <<Layer(pick_left, su_left, "left")>>]>>,
                    ps, pick_left, pick_right)
        ELSE IF left_df = <<>>
        THEN ChartOutcome("returned", "",
                <<Subheader,
                  Warning("No data available for LEFT parameter: "
                          \o PyStr(pick_left))>>,
                ps, pick_left, pick_right)
        ELSE IF right_df = <<>>
        THEN ChartOutcome("returned", "",
                <<Subheader,
                  Warning("No data available for RIGHT parameter: "
                          \o PyStr(pick_right))>>,
                ps, pick_left, pick_right)
        ELSE ChartOutcome("returned", "",
                <<Subheader,
                  [call |-> "write",
                   text |-> "Showing **" \o pick_left
                            \o "** (left axis, scaled to "
                            \o UnitText(su_left.unit) \o ") and **"
                            \o pick_right \o "** (right axis, scaled to "
                            \o UnitText(su_right.unit) \o ")."],
                  [call |-> "altair_chart", periods |-> periods,
                   layers |-> <<Layer(pick_left, su_left, "left"),
                                Layer(pick_right, su_right, "right")>>]>>,
                ps, pick_left, pick_right)

(***************************************************************************)
(* The frames the renderers are given.                                     *)
(***************************************************************************)
\* the companies of a sub-sector, in the order their rows come back
Companies == <<"MYOR", "CMRY", "UNVR", "INDF", "ICBP", "KEJU", "DMND">>

\* three ways the market caps can be ranked: descending in row order,
\* ascending in row order, and with ties
CapsDescending ==
    [MYOR |-> 70, CMRY |-> 90, UNVR |-> 60, INDF |-> 50, ICBP |-> 40,
     KEJU |-> 30, DMND |-> 20]
CapsAscending ==
    [MYOR |-> 10, CMRY |-> 5, UNVR |-> 20, INDF |-> 30, ICBP |-> 40,
     KEJU |-> 50, DMND |-> 60]
CapsTied ==
    [MYOR |-> 50, CMRY |-> 50, UNVR |-> 50, INDF |-> 40, ICBP |-> 40,
     KEJU |-> 40, DMND |-> 40]
Rankings == {CapsDescending, CapsAscending, CapsTied}

MetricRow(c, m, v) == [code |-> c, metric |-> m, clean_value |-> v]

\* the rows of a company besides market_cap
Profiles == {"none", "core", "other", "mixed"}

ProfileRows(c, profile, v) ==
    CASE profile = "none" -> <<>>
      [] profile = "core" ->
            <<MetricRow(c, "PEG Ratio", v + 1), MetricRow(c, "Beta", v + 2),
              MetricRow(c, "Return on Equity (TTM)", v + 3)>>
      [] profile = "other" -> <<MetricRow(c, "Beta", v + 2)>>
      [] profile = "mixed" ->
            IF c = "CMRY" THEN <<MetricRow(c, "Current EPS (TTM)", v + 4)>>
            ELSE <<MetricRow(c, "PEG Ratio", v + 1)>>

\* a second market_cap row of one company: none, a repeated row, a second
\* value next to the first, a second value above every other
Extras == {"none", "MYOR_again", "MYOR_65", "DMND_99"}

ExtraRows(extra, present, caps) ==
    CASE extra = "MYOR_again" /\ "MYOR" \in present ->
            <<MetricRow("MYOR", "market_cap", caps["MYOR"])>>
      [] extra = "MYOR_65" /\ "MYOR" \in present ->
            <<MetricRow("MYOR", "market_cap", 65)>>
      [] extra = "DMND_99" /\ "DMND" \in present ->
            <<MetricRow("DMND", "market_cap", 99)>>
      [] OTHER -> <<>>

RECURSIVE CompanyRows(_, _, _, _)
CompanyRows(k, present, caps, profile) ==
    IF k > Len(Companies) THEN <<>>
    ELSE (IF Companies[k] \in present
          THEN <<MetricRow(Companies[k], "market_cap", caps[Companies[k]])>>
               \o ProfileRows(Companies[k], profile, caps[Companies[k]])
          ELSE <<>>)
         \o CompanyRows(k + 1, present, caps, profile)

TableFrames ==
    {EmptyDataFrame} \cup
    {DataFrame(AllColumns,
               CompanyRows(1, present, caps, profile)
               \o ExtraRows(extra, present, caps)) :
        present \in SUBSET Range(Companies), caps \in Rankings,
        profile \in Profiles, extra \in Extras}

\* quarterly rows: some parameters, each with a value in every period
QuarterRow(c, prm, y, q, v) ==
    [code |-> c, parameter |-> prm, year |-> y, quarter |-> q,
     value_final |-> v]

PeriodSets ==
    {<<<<2024, "Q1">>>>, <<<<2024, "Q2">>, <<2023, "Q4">>, <<2024, "Q1">>>>}

\* the sizes of the values: all small, millions, one parameter in trillions
ValueSizes == {"small", "millions", "mixed"}

QuarterValue(size, prm) ==
    CASE size = "small" -> Number(FALSE, <<999, 999, 0, 0, 0>>, 2400)
      [] size = "millions" -> Number(TRUE, <<0, 0, 1, 0, 0>>, 0)
      [] size = "mixed" ->
            IF prm = "Revenue" THEN Number(FALSE, <<0, 0, 0, 0, 1>>, 0)
            ELSE Number(TRUE, <<0, 0, 0, 999, 0>>, 0)

RECURSIVE ParamRows(_, _, _, _)
ParamRows(k, chosen, periods, size) ==
    IF k = 0 THEN <<>>
    ELSE (IF ParamsSorted[k] \in chosen
          THEN [j \in DOMAIN periods |->
                  QuarterRow("CMRY", ParamsSorted[k], periods[j][1],
                             periods[j][2],
                             QuarterValue(size, ParamsSorted[k]))]
          ELSE <<>>)
         \o ParamRows(k - 1, chosen, periods, size)

\* rows whose parameter is NULL, alone or before rows of named parameters
NullRows(periods) ==
    [j \in DOMAIN periods |->
        QuarterRow("CMRY", NullParameter, periods[j][1], periods[j][2],
                   QuarterValue("small", NullParameter))]

NullFrames ==
    {DataFrame(QuarterColumns,
               NullRows(periods)
               \o ParamRows(Len(ParamsSorted), chosen, periods, "small")) :
        chosen \in {{}, {"Revenue"}, {"Revenue", "Net Income"}},
        periods \in PeriodSets}

ChartFrames ==
    {None, EmptyDataFrame} \cup NullFrames \cup
    {DataFrame(QuarterColumns,
               ParamRows(Len(ParamsSorted), chosen, periods, size)) :
        chosen \in SUBSET Range(ParamsSorted), periods \in PeriodSets,
        size \in ValueSizes}

\* the codes the table is rendered for
TargetCodes == {"CMRY", "MYOR"}

\* the arguments _choose_default_index is called with on its own: lists of
\* up to MaxNames names (repeats included), preferred names of which "Sales"
\* is in no list, fallbacks on both sides of the valid positions
MaxNames == 3
MaxPreferred == 2

SeqsUpTo(S, n) == UNION {[1..k -> S] : k \in 0..n}

IndexParams == SeqsUpTo({"EBITDA", "Net Income", "Revenue"}, MaxNames)

IndexPreferred == SeqsUpTo({"Net Income", "Revenue", "Sales"}, MaxPreferred)

IndexFallbacks == {-2, 0, 1, 2, 5}

NoIndexCall ==
    /\ cdi_pc = "idle"
    /\ cdi_args = None
    /\ cdi_ret = 0

IndexCall ==
    /\ cdi_pc = "called"
    /\ \E ps \in IndexParams, pn \in IndexPreferred, fb \in IndexFallbacks :
          cdi_args = [params |-> ps, preferred_names |-> pn,
                      fallback_idx |-> fb]
    /\ cdi_ret = 0

InitRender ==
    /\ SankeyIdle
    /\ DataIdle
    /\ FormatIdle
    /\ AppIdle
    /\ rd_fn = "none"
    /\ rd_pc = "idle"
    /\ \/ rd_code \in TargetCodes /\ rd_df \in TableFrames /\ NoIndexCall
       \/ rd_code = "CMRY" /\ rd_df \in ChartFrames /\ NoIndexCall
       \/ rd_code = "CMRY" /\ rd_df = None /\ IndexCall
    /\ rd_err = ""
    /\ st_out = <<>>
    /\ competitors_sorted = <<>>
    /\ final_cols = <<>>
    /\ category = <<>>
    /\ df_core = None
    /\ params = <<>>
    /\ left_default_idx = 0
    /\ right_default_idx = 0
    /\ left_param = ""
    /\ right_param = ""

\* the frame is one df_all can be: pd.DataFrame() or rows of the ALL table
IsAllFrame(df) ==
    IF df = None THEN FALSE ELSE df.columns \in {<<>>, AllColumns}

\* the frame is one df_quarter can be
IsQuarterFrame(df) ==
    IF df = None THEN TRUE ELSE df.columns \in {<<>>, QuarterColumns}

TableEnds(fn, r) ==
    /\ rd_fn' = fn
    /\ rd_pc' = r.pc
    /\ rd_err' = r.err
    /\ st_out' = st_out \o r.out
    /\ competitors_sorted' = r.competitors_sorted
    /\ final_cols' = r.final_cols
    /\ category' = r.category
    /\ df_core' = r.df_core
    /\ UNCHANGED <<rd_code, rd_df, params, left_default_idx,
                   right_default_idx, left_param, right_param, cdiVars>>
    /\ UNCHANGED outsideRender

\* render_core_fundamental_table(code, df_all)
RenderCoreFundamentalTable ==
    /\ rd_pc = "idle"
    /\ IsAllFrame(rd_df)
    /\ \E ties \in TieOrders :
          TableEnds("render_core_fundamental_table",
                    render_core_fundamental_table(rd_code, rd_df, ties))

\* the script plot_table.py run on the frame of its code
PlotTable ==
    /\ rd_pc = "idle"
    /\ IsAllFrame(rd_df)
    /\ rd_code = PlotTableCode
    /\ \E ties \in TieOrders :
          TableEnds("plot_table", plot_table(rd_df, ties))

\* quarterly_fundamental_chart(code, df_quarter), the select boxes
\* returning any two of the parameters
QuarterlyFundamentalChart ==
    /\ rd_pc = "idle"
    /\ IsQuarterFrame(rd_df)
    /\ LET ps == IF rd_df = None THEN <<>>
                 ELSE IF IsEmptyFrame(rd_df) THEN <<>>
                 ELSE SortedParams(rd_df.rows)
           picks == IF ps = <<>> THEN {""} ELSE Range(ps)
       IN  \E pick_left \in picks, pick_right \in picks :
             LET r == quarterly_fundamental_chart(rd_code, rd_df, pick_left,
                                                  pick_right)
             IN  /\ rd_fn' = "quarterly_fundamental_chart"
                 /\ rd_pc' = r.pc
                 /\ rd_err' = r.err
                 /\ st_out' = st_out \o r.out
                 /\ params' = r.params
                 /\ left_default_idx' = r.left_default_idx
                 /\ right_default_idx' = r.right_default_idx
                 /\ left_param' = r.left_param
                 /\ right_param' = r.right_param
    /\ UNCHANGED <<rd_code, rd_df, competitors_sorted, final_cols, category,
                   df_core, cdiVars>>
    /\ UNCHANGED outsideRender

\* _choose_default_index(params, preferred_names, fallback_idx)
ChooseDefaultIndex ==
    /\ cdi_pc = "called"
    /\ cdi_pc' = "returned"
    /\ cdi_ret' = _choose_default_index(cdi_args.params,
                                        cdi_args.preferred_names,
                                        cdi_args.fallback_idx)
    /\ UNCHANGED <<cdi_args, rd_fn, rd_pc, rd_code, rd_df, rd_err, st_out,
                   competitors_sorted, final_cols, category, df_core, params,
                   left_default_idx, right_default_idx, left_param,
                   right_param>>
    /\ UNCHANGED outsideRender

NextRender ==
    \/ RenderCoreFundamentalTable
    \/ PlotTable
    \/ QuarterlyFundamentalChart
    \/ ChooseDefaultIndex

SpecRender == InitRender /\ [][NextRender]_vars

(***************************************************************************)
(* app.py: one run of the script per user interaction.                     *)
(***************************************************************************)
MaxRuns == 3

\* hero_section(codes): the select box's value, a str
hero_section(codes, choice) == choice

\* a, b = v for a str v: one character each when v has two, else ValueError
UnpackPair(v) ==
    IF Len(v) = 2
    THEN [raised |-> FALSE, error |-> "", first |-> SubSeq(v, 1, 1),
          second |-> SubSeq(v, 2, 2)]
    ELSE [raised |-> TRUE,
          error |-> IF Len(v) > 2
                    THEN "ValueError: too many values to unpack (expected 2)"
                    ELSE "ValueError: not enough values to unpack (expected 2, got "
                         \o ToString(Len(v)) \o ")",
          first |-> "", second |-> ""]

\* the state of output/<code>.json
PayloadStates == {"missing", "no_anchor", "ok"}

\* lines 44-73 for an active code: the stages in the order the script goes
\* through them, up to the first exception
RunPipeline(cr, payload) ==
    IF payload = "missing"
    THEN [stages |-> <<"load_payload">>, error |-> "FileNotFoundError"]
    ELSE IF get_bigquery_client(cr).raised
    THEN [stages |-> <<"load_payload", "get_bigquery_client">>,
          error |-> get_bigquery_client(cr).error]
    ELSE
    LET upToSankey ==
            <<"load_payload", "get_bigquery_client", "query_all",
              "query_quarter", "quarterly_fundamental_chart",
              "commentary_and_snapshot", "sankey_section",
              "read_payload", "plot_income_sankey">>
    IN  IF payload = "no_anchor"
        THEN [stages |-> upToSankey,
              error |-> "ValueError: Row not found for anchor"]
        ELSE [stages |-> upToSankey \o <<"plotly_chart", "money_flow">>,
              error |-> ""]

\* the whole script: what it leaves in the session state, the stages it
\* went through and the exception that ended it
app(session, choice, cr, payload) ==
    LET s0 == IF "active_code" \in session.keys THEN session
              ELSE [keys |-> {"active_code"}, active_code |-> None]
        hero == UnpackPair(hero_section(CODES, choice))
        s1 == IF hero.second # "" THEN [s0 EXCEPT !.active_code = hero.first]
              ELSE s0
        run == RunPipeline(cr, payload)
    IN  IF hero.raised
        THEN [session |-> s0, stages |-> <<"hero_section">>,
              error |-> hero.error]
        ELSE IF s1.active_code = None
        THEN [session |-> s1, stages |-> <<"hero_section">>, error |-> ""]
        ELSE [session |-> s1, stages |-> <<"hero_section">> \o run.stages,
              error |-> run.error]

InitApp ==
    /\ SankeyIdle
    /\ RenderIdle
    /\ FormatIdle
    /\ dx_fn = "none"
    /\ dx_pc = "idle"
    /\ code_arg = ""
    /\ client = "None"
    /\ creds \in CredentialStates
    /\ queries = <<>>
    /\ responses = <<>>
    /\ printed = <<>>
    /\ df_all = None
    /\ df_quarter = None
    /\ dx_ret = None
    /\ dx_err = ""
    /\ AppIdle

\* the user opens the page or picks a ticker: streamlit runs the script
AppRun ==
    /\ runs < MaxRuns
    /\ \E choice \in Range(CODES) : \E payload \in PayloadStates :
          LET r == app(session_state, choice, creds, payload)
          IN  /\ selected' = choice
              /\ session_state' = r.session
              /\ runs' = runs + 1
              /\ app_pc' = IF r.error = "" THEN "returned" ELSE "raised"
              /\ app_err' = r.error
              /\ stages' = r.stages
    /\ UNCHANGED outsideApp

NextApp == AppRun

SpecApp == InitApp /\ [][NextApp]_vars

(***************************************************************************)
(* Vocabulary of the properties, stated on the payload and the outputs.    *)
(***************************************************************************)
\* positions of the segment rows
SegPositions == {k \in 1..Len(table) : table[k].anchor = SegmentAnchor}

SegCount == Cardinality(SegPositions)

\* the i-th segment row in table order, i counted from 0
SegRow(i) ==
    table[CHOOSE k \in SegPositions :
            Cardinality({j \in SegPositions : j < k}) = i]

Present(a) == \E k \in 1..Len(table) : table[k].anchor = a

\* every required anchor has a row
AllPresent == \A k \in 1..8 : Present(RequiredAnchors[k])

\* the first row in table order that carries anchor a
FirstRow(a) ==
    table[CHOOSE k \in 1..Len(table) :
            /\ table[k].anchor = a
            /\ \A j \in 1..(k - 1) : table[j].anchor # a]

Current(a) == FirstRow(a).current

\* plot_income_sankey has returned or raised
Finished == pc # "loaded"

\* the positions of the flows leaving node s
OutFlows(s) == {k \in 1..Len(flows) : flows[k][1] = s}

RECURSIVE SumValues(_)
SumValues(S) ==
    IF S = {} THEN 0
    ELSE LET k == CHOOSE x \in S : TRUE
         IN  flows[k][3] + SumValues(S \ {k})

RECURSIVE SumLinkPct(_)
SumLinkPct(S) ==
    IF S = {} THEN Rat(0, 1)
    ELSE LET k == CHOOSE x \in S : TRUE
         IN  RatAdd(link_pct[k], SumLinkPct(S \ {k}))

(***************************************************************************)
(* C1: for every table in which each of the eight required anchors is      *)
(* present, with n_seg rows anchored REV_BREAKDOWN_SEGMENT, the build      *)
(* returns exactly n_seg + 8 nodes and n_seg + 7 edges; with n_seg = 0     *)
(* that is 8 nodes, 7 edges and no edge whose target is Revenue.           *)
(***************************************************************************)
C1_NodeAndEdgeCount ==
    (Finished /\ AllPresent) =>
        /\ pc = "done"
        /\ Len(nodes) = SegCount + 8
        /\ Len(flows) = SegCount + 7
        /\ Len(fig.node_label) = SegCount + 8
        /\ Len(fig.link_source) = SegCount + 7
        /\ Len(fig.link_target) = SegCount + 7
        /\ Len(fig.link_value) = SegCount + 7
        /\ SegCount = 0 =>
              /\ Len(nodes) = 8
              /\ Len(flows) = 7
              /\ \A k \in 1..Len(flows) : flows[k][2] # SegCount

C1_Witness ==
    /\ pc = "done"
    /\ SegCount = MaxSeg
    /\ Len(nodes) = MaxSeg + 8
    /\ Len(flows) = MaxSeg + 7

(***************************************************************************)
(* C2: every edge weight of a built graph is >= 0, whatever the sign of    *)
(* the `current` value of any source record.                               *)
(***************************************************************************)
C2_EdgeWeightsNonNegative ==
    pc = "done" => \A k \in 1..Len(flows) : flows[k][3] >= 0

(***************************************************************************)
(* C3: if the table has no row for one of the eight required anchors, the  *)
(* build fails with an error naming a missing anchor (the first one in the *)
(* order the rows are fetched, hence the anchor itself when it is the only *)
(* one missing), and no node, edge, label or figure is produced.           *)
(***************************************************************************)
NothingBuilt ==
    /\ fig = None
    /\ nodes = <<>>
    /\ flows = <<>>
    /\ node_values = <<>>
    /\ pct_text = <<>>
    /\ labels = <<>>
    /\ link_pct = <<>>
    /\ x_pos = <<>>
    /\ y_pos = <<>>

C3_MissingAnchorIsFatal ==
    \A k \in 1..8 :
        (Finished /\ ~Present(RequiredAnchors[k])) =>
            /\ pc = "failed"
            /\ NothingBuilt
            /\ \E j \in 1..8 :
                  /\ ~Present(RequiredAnchors[j])
                  /\ \A i \in 1..(j - 1) : Present(RequiredAnchors[i])
                  /\ err = "Row not found for anchor=" \o RequiredAnchors[j]
            /\ (\A j \in (1..8) \ {k} : Present(RequiredAnchors[j])) =>
                  err = "Row not found for anchor=" \o RequiredAnchors[k]

C3_Witness ==
    /\ pc = "failed"
    /\ ~Present("EBIT_TOTAL")
    /\ \A j \in (1..8) \ {5} : Present(RequiredAnchors[j])
    /\ err = "Row not found for anchor=EBIT_TOTAL"
    /\ fig = None

(***************************************************************************)
(* C4 as stated: for each of the six percentage-base rules, Revenue vs     *)
(* Revenue included, a zero denominator leaves the node's percentage text  *)
(* empty.                                                                  *)
(***************************************************************************)
ComputedRulesEmptyOnZero ==
    /\ Current("REV_TOTAL") = 0 =>
          /\ \A i \in 1..SegCount : pct_text[i] = ""
          /\ pct_text[SegCount + 2] = ""
          /\ pct_text[SegCount + 3] = ""
    /\ Current("GP_TOTAL") = 0 =>
          /\ pct_text[SegCount + 4] = ""
          /\ pct_text[SegCount + 5] = ""
    /\ Current("EBIT_TOTAL") = 0 => pct_text[SegCount + 6] = ""
    /\ Current("PBT_TOTAL") = 0 =>
          /\ pct_text[SegCount + 7] = ""
          /\ pct_text[SegCount + 8] = ""

C4_AllSixRulesEmptyOnZero ==
    pc = "done" =>
        /\ ComputedRulesEmptyOnZero
        /\ Current("REV_TOTAL") = 0 => pct_text[SegCount + 1] = ""

(***************************************************************************)
(* C4 amended: for the five computed rules (segment vs Revenue, COGS/GP vs *)
(* Revenue, OPEX/EBIT vs Gross Profit, PBT vs EBIT, Tax/Net Profit vs PBT) *)
(* a zero denominator leaves the node's percentage text empty, its label   *)
(* carries no percentage line and no error is raised; the Revenue node is  *)
(* labelled "100.0% of Revenue" whatever REV_TOTAL is, zero included.      *)
(***************************************************************************)
C4_ZeroDenominatorGivesEmptyPct ==
    /\ (Finished /\ AllPresent) => pc = "done"
    /\ pc = "done" =>
          /\ ComputedRulesEmptyOnZero
          /\ pct_text[SegCount + 1] = "100.0% of Revenue"
          /\ \A i \in 1..Len(nodes) :
                pct_text[i] = "" =>
                    labels[i] = "<b>" \o nodes[i] \o "</b><br>"
                                  \o format_value(MetaGet(meta, "currency",
                                                          "IDR"),
                                                  node_values[i])

C4_Witness ==
    /\ pc = "done"
    /\ Current("REV_TOTAL") = 0
    /\ Current("GP_TOTAL") = 0
    /\ Current("EBIT_TOTAL") = 0
    /\ Current("PBT_TOTAL") = 0
    /\ pct_text = <<"100.0% of Revenue", "", "", "", "", "", "", "">>

(***************************************************************************)
(* C5: for every source node whose outgoing edge weights have a nonzero    *)
(* total, the percent-of-source values of its outgoing edges sum to 100.   *)
(***************************************************************************)
C5_LinkPctSumsTo100 ==
    pc = "done" =>
        \A s \in 0..(Len(nodes) - 1) :
            (OutFlows(s) # {} /\ SumValues(OutFlows(s)) # 0) =>
                RatEq(SumLinkPct(OutFlows(s)), Rat(100, 1))

C5_Witness ==
    /\ pc = "done"
    /\ \E s \in 0..(Len(nodes) - 1) :
          /\ Cardinality(OutFlows(s)) = 2
          /\ \A k \in OutFlows(s) : flows[k][3] # 0
          /\ \E k \in OutFlows(s) : flows[k][3] < 0
          /\ SumValues(OutFlows(s)) # 0
          /\ RatEq(SumLinkPct(OutFlows(s)), Rat(100, 1))

(***************************************************************************)
(* C6: an edge whose source has total outflow zero gets percent-of-source  *)
(* 0, without a division and without an error; any other edge gets         *)
(* 100 * value / (sum of the values of the edges with the same source).    *)
(***************************************************************************)
C6_LinkPctOfSource ==
    /\ (Finished /\ AllPresent) => pc = "done"
    /\ pc = "done" =>
          /\ Len(link_pct) = Len(flows)
          /\ fig.link_customdata = link_pct
          /\ \A k \in 1..Len(flows) :
                LET tot == SumValues(OutFlows(flows[k][1]))
                IN  IF tot = 0
                    THEN link_pct[k] = Rat(0, 1)
                    ELSE link_pct[k].n * tot
                            = 100 * flows[k][3] * link_pct[k].d

C6_Witness ==
    /\ pc = "done"
    /\ \E k \in 1..Len(flows) :
          /\ flows[k][3] # 0
          /\ SumValues(OutFlows(flows[k][1])) = 0
          /\ link_pct[k] = Rat(0, 1)
    /\ \E k \in 1..Len(flows) :
          /\ SumValues(OutFlows(flows[k][1])) # 0
          /\ link_pct[k] = Rat(40, 1)

(***************************************************************************)
(* C7: for the table REV_TOTAL=1000, COGS_TOTAL=-400, GP_TOTAL=600,        *)
(* OPEX_TOTAL=-300, EBIT_TOTAL=300, PBT_TOTAL=280, TAX_EXPENSE=-70,        *)
(* NET_PROFIT_TOTAL=210 without segments the build returns 8 nodes and 7   *)
(* edges, with percentage text "100.0% of Revenue" on Revenue, "40.0% of   *)
(* Revenue" on COGS and "25.0% of PBT" on Tax.                             *)
(***************************************************************************)
IsExampleTable ==
    /\ SegCount = 0
    /\ AllPresent
    /\ \A k \in 1..8 : Current(RequiredAnchors[k]) = ExampleValues[k]

C7_Example ==
    (Finished /\ IsExampleTable) =>
        /\ pc = "done"
        /\ Len(nodes) = 8
        /\ Len(flows) = 7
        /\ pct_text[1] = "100.0% of Revenue"
        /\ pct_text[2] = "40.0% of Revenue"
        /\ pct_text[7] = "25.0% of PBT"
        /\ LET cur == MetaGet(meta, "currency", "IDR")
           IN  /\ fig.node_label[1]
                     = "<b>Revenue</b><br>" \o cur
                         \o " 0.6T<br>100.0% of Revenue"
               /\ fig.node_label[2]
                     = "<b>COGS</b><br>" \o cur
                         \o " 0.4T<br>40.0% of Revenue"
               /\ fig.node_label[7]
                     = "<b>Tax</b><br>" \o cur \o " 0.1T<br>25.0% of PBT"

C7_Witness ==
    /\ pc = "done"
    /\ IsExampleTable
    /\ pct_text[2] = "40.0% of Revenue"
    /\ pct_text[7] = "25.0% of PBT"
    /\ labels[1] = "<b>Revenue</b><br>IDR 0.6T<br>100.0% of Revenue"

(***************************************************************************)
(* C8: node indices are positional.  The i-th segment row in table order   *)
(* is node i for 0 <= i < n_seg; Revenue, COGS, Gross Profit, Operating    *)
(* Expenses, EBIT, Pre-tax Profit, Tax and Net Profit are nodes n_seg ..   *)
(* n_seg + 7 in that order; the name, x, y, colour and label lists all     *)
(* have length n_seg + 8 and are aligned on these indices.                 *)
(***************************************************************************)
FixedX ==
    <<Rat(25, 100), Rat(45, 100), Rat(45, 100), Rat(65, 100), Rat(65, 100),
      Rat(82, 100), Rat(98, 100), Rat(98, 100)>>

FixedY ==
    <<Rat(40, 100), Rat(80, 100), Rat(15, 100), Rat(45, 100), Rat(10, 100),
      Rat(8, 100), Rat(30, 100), Rat(5, 100)>>

FixedColors == <<Grey, Red, Green, Red, Green, Green, Red, Green>>

C8_PositionalNodeIndices ==
    pc = "done" =>
        /\ Len(nodes) = SegCount + 8
        /\ Len(x_pos) = SegCount + 8
        /\ Len(y_pos) = SegCount + 8
        /\ Len(node_colors) = SegCount + 8
        /\ Len(labels) = SegCount + 8
        /\ Len(node_values) = SegCount + 8
        /\ Len(pct_text) = SegCount + 8
        /\ \A i \in 0..(SegCount - 1) :
              /\ nodes[i + 1] = SegRow(i).display_name
              /\ x_pos[i + 1] = Rat(5, 100)
              /\ node_colors[i + 1] = Grey
        /\ \A k \in 1..8 :
              /\ nodes[SegCount + k] = FirstRow(RequiredAnchors[k]).display_name
              /\ x_pos[SegCount + k] = FixedX[k]
              /\ y_pos[SegCount + k] = FixedY[k]
              /\ node_colors[SegCount + k] = FixedColors[k]
        /\ \A i \in 1..(SegCount + 8) :
              labels[i] = Label(nodes[i],
                                format_value(MetaGet(meta, "currency", "IDR"),
                                             node_values[i]),
                                pct_text[i])
        /\ fig.node_label = labels
        /\ fig.node_x = x_pos
        /\ fig.node_y = y_pos
        /\ fig.node_color = node_colors

\* two segments that are not adjacent rows of the table
C8_Witness ==
    /\ pc = "done"
    /\ SegCount >= 2
    /\ \E k \in 1..Len(table) :
          /\ table[k].anchor # SegmentAnchor
          /\ \E i, j \in SegPositions : i < k /\ k < j
    /\ nodes[1] = SegRow(0).display_name
    /\ nodes[2] = SegRow(1).display_name
    /\ nodes[SegCount + 8] = "Net profit"

(***************************************************************************)
(* C9: the edge list is segment_i -> Revenue (segment i's current) for     *)
(* each segment, then Revenue->COGS (|COGS|), Revenue->Gross Profit (GP),  *)
(* Gross Profit->Operating Expenses (|OPEX|), Gross Profit->EBIT (EBIT),   *)
(* EBIT->Pre-tax Profit (PBT), Pre-tax Profit->Tax (|Tax|), Pre-tax        *)
(* Profit->Net Profit (Net Profit); every edge goes from a lower node      *)
(* index to a higher one, so there is no cycle, no self-loop and no        *)
(* duplicate (source, target) pair.                                        *)
(***************************************************************************)
Magnitude(x) == IF x >= 0 THEN x ELSE 0 - x

ExpectedFlows ==
    LET n == SegCount
    IN  [i \in 1..n |-> <<i - 1, n, SegRow(i - 1).current>>]
        \o <<<<n,     n + 1, Magnitude(Current("COGS_TOTAL"))>>,
             <<n,     n + 2, Current("GP_TOTAL")>>,
             <<n + 2, n + 3, Magnitude(Current("OPEX_TOTAL"))>>,
             <<n + 2, n + 4, Current("EBIT_TOTAL")>>,
             <<n + 4, n + 5, Current("PBT_TOTAL")>>,
             <<n + 5, n + 6, Magnitude(Current("TAX_EXPENSE"))>>,
             <<n + 5, n + 7, Current("NET_PROFIT_TOTAL")>>>>

C9_EdgeList ==
    pc = "done" =>
        /\ flows = ExpectedFlows
        /\ \A k \in 1..Len(flows) :
              /\ flows[k][1] \in 0..(Len(nodes) - 1)
              /\ flows[k][2] \in 0..(Len(nodes) - 1)
              /\ flows[k][1] < flows[k][2]
        /\ \A j, k \in 1..Len(flows) :
              (flows[j][1] = flows[k][1] /\ flows[j][2] = flows[k][2]) => j = k
        /\ fig.link_source = [k \in 1..Len(flows) |-> flows[k][1]]
        /\ fig.link_target = [k \in 1..Len(flows) |-> flows[k][2]]
        /\ fig.link_value = [k \in 1..Len(flows) |-> flows[k][3]]

C9_Witness ==
    /\ pc = "done"
    /\ SegCount = MaxSeg
    /\ Current("COGS_TOTAL") < 0
    /\ Current("GP_TOTAL") < 0
    /\ flows[SegCount + 1] = <<SegCount, SegCount + 1, 3>>
    /\ flows[SegCount + 2] = <<SegCount, SegCount + 2, -3>>

(***************************************************************************)
(* C10: for every node and every table with all required anchors, negative *)
(* profit or segment values included, the node's value equals the maximum  *)
(* weight among the edges that touch the node as source or as target.      *)
(***************************************************************************)
TouchingWeights(i) ==
    {flows[k][3] : k \in {j \in 1..Len(flows) :
                            flows[j][1] = i \/ flows[j][2] = i}}

MaxWeight(S) == CHOOSE v \in S : \A w \in S : v >= w

C10_NodeValueIsMaxTouchingWeight ==
    pc = "done" =>
        \A i \in 0..(Len(nodes) - 1) :
            /\ TouchingWeights(i) # {}
            /\ node_values[i + 1] = MaxWeight(TouchingWeights(i))

(***************************************************************************)
(* C11: each node's percentage is computed against the fixed base of its   *)
(* role: segments, COGS and Gross Profit against REV_TOTAL, Operating      *)
(* Expenses and EBIT against GP_TOTAL, Pre-tax Profit against EBIT_TOTAL,  *)
(* Tax and Net Profit against PBT_TOTAL, cost numerators as absolute       *)
(* values; Revenue is always labelled "100.0% of Revenue".                 *)
(***************************************************************************)
\* the text of 100 * num / denom against the named base, empty when denom = 0
PctOfBase(num, denom, base) ==
    IF denom = 0 THEN ""
    ELSE Fmt1(Rat(100 * num, denom)) \o "% of " \o base

C11_PercentageBasePerRole ==
    pc = "done" =>
        LET n == SegCount
        IN  /\ \A i \in 1..n :
                  pct_text[i] = PctOfBase(SegRow(i - 1).current,
                                          Current("REV_TOTAL"), "Revenue")
            /\ pct_text[n + 1] = "100.0% of Revenue"
            /\ pct_text[n + 2] = PctOfBase(Magnitude(Current("COGS_TOTAL")),
                                           Current("REV_TOTAL"), "Revenue")
            /\ pct_text[n + 3] = PctOfBase(Current("GP_TOTAL"),
                                           Current("REV_TOTAL"), "Revenue")
            /\ pct_text[n + 4] = PctOfBase(Magnitude(Current("OPEX_TOTAL")),
                                           Current("GP_TOTAL"), "Gross profit")
            /\ pct_text[n + 5] = PctOfBase(Current("EBIT_TOTAL"),
                                           Current("GP_TOTAL"), "Gross profit")
            /\ pct_text[n + 6] = PctOfBase(Current("PBT_TOTAL"),
                                           Current("EBIT_TOTAL"), "EBIT")
            /\ pct_text[n + 7] = PctOfBase(Magnitude(Current("TAX_EXPENSE")),
                                           Current("PBT_TOTAL"), "PBT")
            /\ pct_text[n + 8] = PctOfBase(Current("NET_PROFIT_TOTAL"),
                                           Current("PBT_TOTAL"), "PBT")

\* EBIT is 100% of Revenue but -66.7% of Gross Profit
C11_Witness ==
    /\ pc = "done"
    /\ Current("REV_TOTAL") = 2
    /\ Current("GP_TOTAL") = -3
    /\ Current("EBIT_TOTAL") = 2
    /\ Current("OPEX_TOTAL") = -3
    /\ pct_text[SegCount + 5] = "-66.7% of Gross profit"
    /\ pct_text[SegCount + 4] = "-100.0% of Gross profit"

(***************************************************************************)
(* C12: the scale of the displayed node values follows the declared unit   *)
(* of the metadata: a value is divided by 1000 and suffixed "T" only when  *)
(* the unit is "million"; under any other declared unit the displayed      *)
(* value of a node is not its value divided by 1000 with suffix "T".       *)
(***************************************************************************)
DeclaredUnit == IF "unit" \in DOMAIN meta THEN meta["unit"] ELSE "million"

\* the value line of a label as produced by dividing by 1000
ThousandthsText(v) ==
    (IF "currency" \in DOMAIN meta THEN meta["currency"] ELSE "IDR")
        \o " " \o FmtGrouped1(Rat(v, 1000)) \o "T"

C12_ScaleFollowsDeclaredUnit ==
    pc = "done" =>
        \A i \in 1..Len(nodes) :
            /\ DeclaredUnit = "million" =>
                  labels[i] = Label(nodes[i], ThousandthsText(node_values[i]),
                                    pct_text[i])
            /\ (DeclaredUnit # "million" /\ node_values[i] # 0) =>
                  labels[i] # Label(nodes[i], ThousandthsText(node_values[i]),
                                    pct_text[i])

(***************************************************************************)
(* data_extraction.py: failures of the warehouse.                          *)
(***************************************************************************)
\* a direct call of one of the two fetching functions has ended
DirectCallEnded ==
    /\ dx_fn \in {"get_data", "get_all_same_subsector"}
    /\ dx_pc \in {"returned", "raised"}

\* the call ended by returning pd.DataFrame(), nothing raised
ReturnedEmpty ==
    /\ dx_pc = "returned"
    /\ dx_err = ""
    /\ dx_ret = EmptyDataFrame

\* the external data source failed in the call: no client could be
\* obtained, or the query or its conversion raised
ClientUnavailable == client = "None" /\ creds # "ok"
QueryFailed == \E k \in DOMAIN responses : ~QuerySucceeds(responses[k])

\* C13 as stated: after every failure of the external data source, failure
\* to obtain a client included, get_data and get_all_same_subsector return
\* an empty record set and propagate no error.
C13_EveryFailureGivesEmptyResult ==
    (DirectCallEnded /\ (ClientUnavailable \/ QueryFailed)) => ReturnedEmpty

\* C13, amended: an exception raised by the query or by to_dataframe gives
\* an empty record set, one printed line and no error; a failure to obtain
\* a client (client None and no usable credentials) is raised to the caller
\* as a RuntimeError before any query is issued.
C13_QueryFailureGivesEmptyResult ==
    DirectCallEnded =>
        /\ QueryFailed =>
             /\ ReturnedEmpty
             /\ Len(queries) = 1
             /\ Len(printed) >= 1
        /\ ClientUnavailable =>
             /\ dx_pc = "raised"
             /\ dx_err # ""
             /\ dx_ret = None
             /\ queries = <<>>
        /\ (dx_pc = "raised") => ClientUnavailable

C13_Witness ==
    /\ dx_fn = "get_data"
    /\ responses = <<"to_dataframe:Exception">>
    /\ ReturnedEmpty
    /\ client = "None"
    /\ creds = "ok"

(***************************************************************************)
(* data_extraction.py: no retries in get_all_and_quarterly.                *)
(***************************************************************************)
IsPrefix(p, q) == Len(p) <= Len(q) /\ p = SubSeq(q, 1, Len(p))

BothQueries == <<SubsectorQuery, TableQuery(BIGQUERY_TABLE_QUARTER)>>

\* C15: in one call of get_all_and_quarterly the queries issued so far are
\* a prefix of <<same-sub-sector ALL query, QUARTER query>>, each answered
\* once; once the first query has been answered (failed or not) the call
\* goes on to the second, and on return both have been issued exactly once.
C15_NoRetries ==
    (dx_fn = "get_all_and_quarterly") =>
        /\ IsPrefix(queries, BothQueries)
        /\ Len(responses) = Len(queries)
        /\ (dx_pc = "query_all") => queries = <<>>
        /\ (dx_pc = "query_quarter") => queries = <<SubsectorQuery>>
        /\ (dx_pc \in {"return", "returned"}) => queries = BothQueries
        /\ (dx_pc = "raised") => queries = <<>>

C15_Witness ==
    /\ dx_fn = "get_all_and_quarterly"
    /\ dx_pc = "returned"
    /\ responses = <<"query:GoogleCloudError", "to_dataframe:Exception">>
    /\ queries = BothQueries
    /\ dx_ret = [df_all |-> EmptyDataFrame, df_quarter |-> EmptyDataFrame]

(***************************************************************************)
(* human_format: the magnitude suffix.                                     *)
(***************************************************************************)
LastChar(t) == IF Len(t) = 0 THEN "" ELSE SubSeq(t, Len(t), Len(t))

HasPoint(t) == \E k \in 1..Len(t) : SubSeq(t, k, k) = "."

Suffixes == {"K", "M", "B", "T"}

\* the suffix of the claim, read off the digit groups of |x|
ExpectedSuffix(x) ==
    IF x.limbs[5] > 0 THEN "T"
    ELSE IF x.limbs[4] > 0 THEN "B"
    ELSE IF x.limbs[3] > 0 THEN "M"
    ELSE IF x.limbs[2] > 0 THEN "K"
    ELSE ""

\* C19: human_format returns "" for a missing value; for a number it ends
\* in K, M, B or T according to |x| (K from 10^3, M from 10^6, B from 10^9,
\* T from 10^12), the same for x and -x, and for |x| < 1000 it returns a
\* decimal without suffix, without trailing zeros after the point and
\* without a trailing point.
C19_SuffixByMagnitude ==
    (fmt_pc = "returned") =>
        /\ (fmt_x.kind = "nan") => fmt_out = ""
        /\ (fmt_x.kind = "number") =>
             IF ExpectedSuffix(fmt_x) # ""
             THEN LastChar(fmt_out) = ExpectedSuffix(fmt_x)
             ELSE /\ LastChar(fmt_out) \notin Suffixes
                  /\ LastChar(fmt_out) # "."
                  /\ HasPoint(fmt_out) => LastChar(fmt_out) # "0"

C19_Witness ==
    /\ fmt_pc = "returned"
    /\ fmt_x = Number(TRUE, <<999, 999, 999, 1, 0>>, 2400)
    /\ fmt_out = "-2.00B"

(***************************************************************************)
(* The renderers: vocabulary.                                              *)
(***************************************************************************)
RendererEnded(fn) == rd_fn = fn /\ rd_pc \in {"returned", "raised"}

Calls(kind) == {k \in DOMAIN st_out : st_out[k].call = kind}

\* something was drawn: a table or a chart
Rendered ==
    Calls("markdown") \cup Calls("dataframe") \cup Calls("altair_chart") # {}

\* C14: given the empty record set pd.DataFrame(), quarterly_fundamental_chart
\* and render_core_fundamental_table each emit a warning and return, drawing
\* nothing and raising nothing.
C14_EmptyRecordSetGivesWarning ==
    (/\ \/ RendererEnded("quarterly_fundamental_chart")
        \/ RendererEnded("render_core_fundamental_table")
     /\ rd_df = EmptyDataFrame)
    => /\ rd_pc = "returned"
       /\ rd_err = ""
       /\ Calls("warning") # {}
       /\ ~Rendered

(***************************************************************************)
(* Peer selection.                                                         *)
(***************************************************************************)
\* the peers a finished table computation selected
Peers == IF rd_fn = "plot_table" THEN Tail(category) ELSE competitors_sorted

PeersSelected ==
    /\ \/ RendererEnded("render_core_fundamental_table")
       \/ RendererEnded("plot_table")
    /\ FirstMissingColumn(rd_df) = ""

\* the market_cap values of a company in the frame
CapsOf(c) ==
    {rd_df.rows[k].clean_value : k \in
        {i \in DOMAIN rd_df.rows :
            rd_df.rows[i].metric = "market_cap" /\ rd_df.rows[i].code = c}}

BestCap(c) == CHOOSE v \in CapsOf(c) : \A w \in CapsOf(c) : w <= v

\* the companies other than the target with a market_cap row
Candidates == {c \in Range(Companies) : c # rd_code /\ CapsOf(c) # {}}

\* C16: the peers are at most five distinct codes other than the target,
\* in descending market_cap order; no company left out has a larger
\* market_cap than a selected peer; and there are exactly five peers when
\* at least five other companies have a market_cap row (min(5, candidates)
\* in general), also when a company has several market_cap rows.
C16_PeerSelection ==
    PeersSelected =>
        /\ Len(Peers) <= MaxPeers
        /\ \A i, j \in DOMAIN Peers : i # j => Peers[i] # Peers[j]
        /\ rd_code \notin Range(Peers)
        /\ Range(Peers) \subseteq Candidates
        /\ \A i, j \in DOMAIN Peers :
              i < j => BestCap(Peers[i]) >= BestCap(Peers[j])
        /\ \A c \in Candidates \ Range(Peers) :
              \A i \in DOMAIN Peers : BestCap(c) <= BestCap(Peers[i])
        /\ Len(Peers) = Min(MaxPeers, Cardinality(Candidates))

\* the same property for render_core_fundamental_table alone
C16_PeerSelectionInApp ==
    RendererEnded("render_core_fundamental_table") => C16_PeerSelection

(***************************************************************************)
(* The rendered peer table.                                                *)
(***************************************************************************)
\* render_core_fundamental_table drew its table
TableRendered ==
    /\ RendererEnded("render_core_fundamental_table")
    /\ df_core # None

CompanyColumns == SubSeq(df_core.columns, 3, Len(df_core.columns))

TargetHasRows == \E k \in DOMAIN rd_df.rows : rd_df.rows[k].code = rd_code

\* C17 as stated: in every rendered table the target's column is the first
\* company column and the peers follow in descending market_cap order.
C17_TargetColumnFirst ==
    TableRendered => CompanyColumns = <<rd_code>> \o competitors_sorted

\* C17, amended: the company columns are the peers in descending
\* market_cap order, preceded by the target's column when the frame has at
\* least one row of the target; a target without rows has no column.
C17_TargetColumnFirstWhenPresent ==
    TableRendered =>
        /\ df_core.columns[1] = "Segment"
        /\ df_core.columns[2] = "Metric"
        /\ CompanyColumns =
             (IF TargetHasRows THEN <<rd_code>> ELSE <<>>)
             \o competitors_sorted
        /\ \A i, j \in DOMAIN competitors_sorted :
              i < j => BestCap(competitors_sorted[i])
                         >= BestCap(competitors_sorted[j])

C17_Witness ==
    /\ TableRendered
    /\ rd_code = "MYOR"
    /\ CompanyColumns = <<"MYOR", "DMND", "KEJU", "CMRY">>

\* C18: every row of the rendered table is a metric of the allow-list that
\* occurs in the data of a shown company, the rows follow the allow-list's
\* order, every allow-list metric has one of the six segments, and so does
\* every rendered row.
SixSegments ==
    {"Quality", "Growth", "Cash Flow", "Risk", "Efficiency", "Valuation"}

PositionInAllowList(m) ==
    CHOOSE k \in DOMAIN core_metrics_in_order : core_metrics_in_order[k] = m

C18_RowsFollowAllowList ==
    /\ \A k \in DOMAIN core_metrics_in_order :
          SegmentOf(core_metrics_in_order[k]) \in SixSegments
    /\ TableRendered =>
        /\ \A k \in DOMAIN df_core.rows :
              /\ df_core.rows[k].Metric \in Range(core_metrics_in_order)
              /\ df_core.rows[k].Segment \in SixSegments
              /\ \E i \in DOMAIN rd_df.rows :
                    /\ rd_df.rows[i].metric = df_core.rows[k].Metric
                    /\ rd_df.rows[i].code \in Range(final_cols)
        /\ \A i, j \in DOMAIN df_core.rows :
              i < j => PositionInAllowList(df_core.rows[i].Metric)
                         < PositionInAllowList(df_core.rows[j].Metric)

C18_Witness ==
    /\ TableRendered
    /\ Len(df_core.rows) = 2
    /\ df_core.rows[1].Metric = "Return on Equity (TTM)"
    /\ df_core.rows[1].Segment = "Quality"
    /\ df_core.rows[2].Metric = "PEG Ratio"
    /\ df_core.rows[2].Segment = "Valuation"
    /\ \E i \in DOMAIN rd_df.rows : rd_df.rows[i].metric = "Beta"

(***************************************************************************)
(* app.py: the pipeline of one run.                                        *)
(***************************************************************************)
RunEnded == runs > 0 /\ app_pc \in {"returned", "raised"}

Count(stage) == Cardinality({k \in DOMAIN stages : stages[k] = stage})

\* the payload file is read by load_payload and by plot_income_sankey
PayloadReads == Count("load_payload") + Count("read_payload")

FirstAt(stage) == CHOOSE k \in DOMAIN stages : stages[k] = stage

\* C20: a run of the app for the selected code goes through load, build and
\* render once each, in that order, and reads the payload once.
C20_LoadBuildRenderOnce ==
    RunEnded =>
        /\ Count("load_payload") = 1
        /\ Count("plot_income_sankey") = 1
        /\ Count("plotly_chart") = 1
        /\ PayloadReads = 1
        /\ FirstAt("load_payload") < FirstAt("plot_income_sankey")
        /\ FirstAt("plot_income_sankey") < FirstAt("plotly_chart")

(***************************************************************************)
(* plot_income_sankey: the layout.                                         *)
(***************************************************************************)
Zero == Rat(0, 1)
One  == Rat(1, 1)

InUnitInterval(r) == RatLeq(Zero, r) /\ RatLeq(r, One)

RatLess(a, b) == RatLeq(a, b) /\ ~RatEq(a, b)

\* b - a
RatGap(a, b) == RatAdd(b, RatMul(Rat(-1, 1), a))

\* the y coordinate of the i-th segment node, i counted from 0
SegY(i) == y_pos[i + 1]

\* C21: every node's x and y lie in [0, 1]; x is fixed by the node's role
\* (segments 0.05, Revenue 0.25, COGS and Gross profit 0.45, Operating
\* expenses and EBIT 0.65, Pre-tax profit 0.82, Tax and Net profit 0.98);
\* with two or more segments their y values increase strictly in table
\* order, are equally spaced, start at 0.2 and end at 0.8; a single segment
\* has y = 0.4.
C21_Layout ==
    pc = "done" =>
        /\ Len(x_pos) = SegCount + 8
        /\ Len(y_pos) = SegCount + 8
        /\ \A i \in 1..(SegCount + 8) :
              InUnitInterval(x_pos[i]) /\ InUnitInterval(y_pos[i])
        /\ \A i \in 0..(SegCount - 1) : RatEq(x_pos[i + 1], Rat(5, 100))
        /\ RatEq(x_pos[SegCount + 1], Rat(25, 100))
        /\ RatEq(x_pos[SegCount + 2], Rat(45, 100))
        /\ RatEq(x_pos[SegCount + 3], Rat(45, 100))
        /\ RatEq(x_pos[SegCount + 4], Rat(65, 100))
        /\ RatEq(x_pos[SegCount + 5], Rat(65, 100))
        /\ RatEq(x_pos[SegCount + 6], Rat(82, 100))
        /\ RatEq(x_pos[SegCount + 7], Rat(98, 100))
        /\ RatEq(x_pos[SegCount + 8], Rat(98, 100))
        /\ SegCount >= 2 =>
              /\ RatEq(SegY(0), Rat(2, 10))
              /\ RatEq(SegY(SegCount - 1), Rat(8, 10))
              /\ \A i \in 0..(SegCount - 2) :
                    /\ RatLess(SegY(i), SegY(i + 1))
                    /\ RatEq(RatGap(SegY(i), SegY(i + 1)),
                             RatGap(SegY(0), SegY(1)))
        /\ SegCount = 1 => RatEq(SegY(0), Rat(4, 10))

\* four segments laid out at 0.2, 0.4, 0.6 and 0.8
C21_Witness ==
    /\ pc = "done"
    /\ SegCount = 4
    /\ RatEq(SegY(1), Rat(4, 10))
    /\ RatEq(SegY(2), Rat(6, 10))
    /\ RatEq(SegY(3), Rat(8, 10))

(***************************************************************************)
(* plot_income_sankey: calls do not influence each other.                  *)
(***************************************************************************)
SamePayload(i, j) ==
    builds[i].table = builds[j].table /\ builds[i].meta = builds[j].meta

WorkStages == {k \in DOMAIN stages : stages[k] # "hero_section"}

\* the run got past the ticker selection of line 33, where the Process
\* click is read
SelectionRead == Len(stages) >= 1 /\ stages[1] = "hero_section" /\
                 ~(Len(stages) = 1 /\ app_err # "")

ChartChose ==
    /\ rd_fn = "quarterly_fundamental_chart"
    /\ rd_pc # "idle"
    /\ params # <<>>

\* the rows df["parameter"] == p selects: None selects none
MatchingRows(p) ==
    {k \in DOMAIN rd_df.rows :
        p # NullParameter /\ rd_df.rows[k].parameter = p}

ChartRendered == \E k \in DOMAIN st_out : st_out[k].call = "altair_chart"

WarningEmitted == \E k \in DOMAIN st_out : st_out[k].call = "warning"

SomeChosenWithoutRows ==
    MatchingRows(left_param) = {} \/ MatchingRows(right_param) = {}

\* C24: when the chosen parameter (the same on both axes) or either of the
\* two chosen parameters has no matching rows, the function emits a warning
\* and returns without a chart and without an exception; a chart is rendered
\* only when every chosen parameter has at least one row.
C24_NoRowsWarns ==
    ChartChose =>
        /\ SomeChosenWithoutRows =>
              /\ rd_pc = "returned"
              /\ rd_err = ""
              /\ WarningEmitted
              /\ ~ChartRendered
        /\ ChartRendered =>
              /\ MatchingRows(left_param) # {}
              /\ MatchingRows(right_param) # {}

\* every row has a NULL parameter: the one option of the select boxes
\* matches no row
C24_Witness ==
    /\ ChartChose
    /\ params = <<NullParameter>>
    /\ left_param = NullParameter
    /\ right_param = NullParameter
    /\ rd_df.rows # <<>>
    /\ SomeChosenWithoutRows
    /\ st_out = <<Subheader,
                  Warning("No data available for parameter: None")>>

(***************************************************************************)
(* _choose_default_index and the default selections of the chart.          *)
(***************************************************************************)
\* the positions of the preferred names that occur in the list
PreferredFound(ps, pn) == {i \in DOMAIN pn : \E k \in DOMAIN ps : ps[k] = pn[i]}

\* the first preferred name, in preferred order, that occurs in the list
FirstPreferred(ps, pn) ==
    pn[CHOOSE i \in PreferredFound(ps, pn) :
          \A j \in PreferredFound(ps, pn) : i <= j]

\* v is fb clamped into lo..hi
Clamped(v, fb, lo, hi) ==
    /\ v \in lo..hi
    /\ fb \in lo..hi => v = fb
    /\ fb < lo => v = lo
    /\ fb > hi => v = hi

\* what C25 says the function returns (0-based; for a name that occurs more
\* than once, its first position)
IndexAsClaimed(ps, pn, fb, v) ==
    IF PreferredFound(ps, pn) # {}
    THEN /\ v \in 0..(Len(ps) - 1)
         /\ ps[v + 1] = FirstPreferred(ps, pn)
         /\ \A k \in 1..v : ps[k] # FirstPreferred(ps, pn)
    ELSE IF ps = <<>> THEN v = 0
    ELSE Clamped(v, fb, 0, Len(ps) - 1)

\* C25: _choose_default_index returns the position in params of the first
\* name of preferred_names, in preferred order, that occurs in params; when
\* none occurs, fallback_idx clamped into [0, len(params)-1], and 0 for an
\* empty list.  In quarterly_fundamental_chart the left and right default
\* indices are valid positions of params and differ whenever there are two
\* or more parameters.
C25_DefaultIndices ==
    /\ cdi_pc = "returned" =>
          IndexAsClaimed(cdi_args.params, cdi_args.preferred_names,
                         cdi_args.fallback_idx, cdi_ret)
    /\ ChartChose =>
          /\ left_default_idx \in 0..(Len(params) - 1)
          /\ right_default_idx \in 0..(Len(params) - 1)
          /\ Len(params) >= 2 => left_default_idx # right_default_idx

\* Revenue is the second of two parameters and no net-income name exists:
\* both defaults fall on position 1 and the right one is moved to 0
C25_Witness ==
    /\ ChartChose
    /\ params = <<"EBITDA", "Revenue">>
    /\ left_default_idx = 1
    /\ right_default_idx = 0
    /\ _choose_default_index(params, RightPreferred, 1) = 1

(***************************************************************************)
(* plot_income_sankey: a required anchor carried by more than one row.     *)
(***************************************************************************)
Required(a) == \E k \in 1..8 : RequiredAnchors[k] = a

\* a required anchor occurs in two rows or more
SomeAnchorRepeated ==
    \E a \in Range(RequiredAnchors) :
        Cardinality({k \in 1..Len(table) : table[k].anchor = a}) >= 2

\* row k carries a required anchor that an earlier row carries too
LaterRepeat(k) ==
    /\ Required(table[k].anchor)
    /\ \E j \in 1..(k - 1) : table[j].anchor = table[k].anchor

\* the positions of the table without those rows, in table order
KeptPositions == {k \in 1..Len(table) : ~LaterRepeat(k)}

WithoutLaterRepeats ==
    [i \in 1..Cardinality(KeptPositions) |->
        table[CHOOSE k \in KeptPositions :
                Cardinality({j \in KeptPositions : j <= k}) = i]]

\* everything a build on the payload (t, m) returns
OutputsOf(t, m) ==
    LET nd == BuildNodes(t)
        fl == BuildFlows(t)
        n  == n_seg(t)
        nv == BuildNodeValues(nd, fl)
        pt == BuildPctText(t)
        lb == BuildLabels(MetaGet(m, "currency", "IDR"), nd, nv, pt)
        lp == BuildLinkPct(fl)
    IN  [nodes |-> nd, flows |-> fl, x_pos |-> BuildXPos(n),
         y_pos |-> BuildYPos(n), node_colors |-> BuildNodeColors(n),
         link_colors |-> BuildLinkColors(n), node_values |-> nv,
         pct_text |-> pt, labels |-> lb, link_pct |-> lp,
         fig |-> BuildFigure(m, fl, lb, BuildNodeColors(n), BuildXPos(n),
                             BuildYPos(n), BuildLinkColors(n), lp)]

\* C26: when a required anchor occurs in more than one row, the build raises
\* no error and takes the node name, the edge weights and the percentages
\* from the first such row in table order; the later rows of that anchor
\* change no output.
C26_FirstRowWins ==
    (Finished /\ AllPresent /\ SomeAnchorRepeated) =>
        /\ pc = "done"
        /\ err = ""
        /\ \A k \in 1..8 :
              nodes[SegCount + k] = FirstRow(RequiredAnchors[k]).display_name
        /\ flows = ExpectedFlows
        /\ pct_text[SegCount + 3] =
              PctOfBase(Current("GP_TOTAL"), Current("REV_TOTAL"), "Revenue")
        /\ CallResult = OutputsOf(WithoutLaterRepeats, meta)

\* a second GP_TOTAL row with another value behind the first
C26_Witness ==
    /\ pc = "done"
    /\ SomeAnchorRepeated
    /\ Len(table) = 10
    /\ table[4].anchor = "GP_TOTAL"
    /\ table[10].anchor = "GP_TOTAL"
    /\ table[4].current = 2
    /\ table[10].current = -3
    /\ nodes[SegCount + 3] = "Gross profit"
    /\ flows[SegCount + 2] = <<SegCount, SegCount + 2, 2>>

====
